---- MODULE Spec2Model ----
(***************************************************************************)
(* ESP32-SMS-Sender: the Modem wrapper (lib/Modem) and the ProbeRegistry   *)
(* (lib/ProbeRegistry).                                                    *)
(*                                                                         *)
(* Strings are sequences of one-character strings, so that length, prefix, *)
(* indexOf, substring, trim and toInt are computed as Arduino's String     *)
(* computes them.  Indices passed to the String operators are 0-based, as  *)
(* in the source.                                                          *)
(***************************************************************************)
EXTENDS Integers, Sequences, FiniteSets, TLC

(***************************************************************************)
(* Bounds of the model (not program constants).                            *)
(***************************************************************************)
\* longest response line drawn over LineAlphabet in the parsing specification
MaxLineLen == 4
\* longest network identifier drawn over IdAlphabet in the lookup specification
MaxIdLen == 6
\* isCsRegistered() calls the caller makes after initModemClean returned
MaxFollowUps == 1
\* calls one caller makes in the single-caller SMS specification
MaxSmsCalls == 1
\* calls the two callers make in all in the concurrent SMS specification
MaxConcCalls == 2

(***************************************************************************)
(* Arduino String primitives.                                              *)
(***************************************************************************)
Digits == {"0", "1", "2", "3", "4", "5", "6", "7", "8", "9"}

\* isspace(): the characters of it that the model's lines use
Spaces == {" ", "\r", "\t"}

DigitVal(c) ==
    CASE c = "0" -> 0 [] c = "1" -> 1 [] c = "2" -> 2 [] c = "3" -> 3
      [] c = "4" -> 4 [] c = "5" -> 5 [] c = "6" -> 6 [] c = "7" -> 7
      [] c = "8" -> 8 [] c = "9" -> 9

\* String::indexOf(ch, fromIndex): -1 when fromIndex >= len or ch is absent
IndexOf(s, ch, from) ==
    IF from >= Len(s) THEN -1
    ELSE LET hits == {k \in from..(Len(s) - 1) : s[k + 1] = ch}
         IN  IF hits = {} THEN -1
             ELSE CHOOSE k \in hits : \A j \in hits : k <= j

\* String::substring(left, right): swaps left > right, clamps right, empty
\* when left >= len; the characters [left, right)
Substring(s, left, right) ==
    LET l == IF left > right THEN right ELSE left
        r0 == IF left > right THEN left ELSE right
        r == IF r0 > Len(s) THEN Len(s) ELSE r0
    IN  IF l >= Len(s) THEN <<>> ELSE SubSeq(s, l + 1, r)

\* String::substring(left) == substring(left, len)
SubstringFrom(s, left) == Substring(s, left, Len(s))

\* String::trim(): drops isspace() characters at both ends
Trim(s) ==
    LET keep == {k \in 1..Len(s) : s[k] \notin Spaces}
    IN  IF keep = {} THEN <<>>
        ELSE LET lo == CHOOSE k \in keep : \A j \in keep : k <= j
                 hi == CHOOSE k \in keep : \A j \in keep : k >= j
             IN  SubSeq(s, lo, hi)

RECURSIVE AtolDigits(_, _, _)
\* the digit run of atol(): accumulates from position k until a non-digit
AtolDigits(s, k, acc) ==
    IF k > Len(s) \/ s[k] \notin Digits THEN acc
    ELSE AtolDigits(s, k + 1, 10 * acc + DigitVal(s[k]))

RECURSIVE SkipSpaces(_, _)
SkipSpaces(s, k) ==
    IF k <= Len(s) /\ s[k] \in Spaces THEN SkipSpaces(s, k + 1) ELSE k

\* String::toInt() is atol(buffer): leading whitespace, an optional sign, then
\* the leading digit run; 0 when there is none
ToInt(s) ==
    LET k == SkipSpaces(s, 1)
    IN  IF k <= Len(s) /\ s[k] = "-" THEN 0 - AtolDigits(s, k + 1, 0)
        ELSE IF k <= Len(s) /\ s[k] = "+" THEN AtolDigits(s, k + 1, 0)
        ELSE AtolDigits(s, k, 0)

\* String::startsWith(prefix)
StartsWith(s, prefix) ==
    /\ Len(s) >= Len(prefix)
    /\ SubSeq(s, 1, Len(prefix)) = prefix

(***************************************************************************)
(* Carrier profile table (Modem.hpp) and lookup (Modem.cpp).               *)
(* A profile pointer is an index into PROFILES; nullptr is 0.              *)
(* plmn is a string or NullStr (nullptr).                                  *)
(***************************************************************************)
\* MCC(3)+MNC(2)
MccMncLen == 5

NullStr == <<"<nullptr>">>

PROFILES ==
    << [name |-> "Vodafone RO", mccmnc |-> <<"2", "2", "6", "0", "1">>,
        modes |-> <<38, 51, 13, 2>>, cmnb |-> 0,
        plmn |-> <<"2", "2", "6", "0", "1">>, act |-> 8],
       [name |-> "Digi RO", mccmnc |-> <<"2", "2", "6", "0", "5">>,
        modes |-> <<13, 2, 38, 51>>, cmnb |-> -1,
        plmn |-> <<"2", "2", "6", "0", "5">>, act |-> 0],
       [name |-> "Orange RO", mccmnc |-> <<"2", "2", "6", "1", "0">>,
        modes |-> <<38, 51, 13, 2>>, cmnb |-> 0,
        plmn |-> <<"2", "2", "6", "1", "0">>, act |-> 8] >>

\* CarrierProfile values outside the table that a caller may hand to
\* setupRadioWithProfile: with skipped (zero) mode entries, without a plmn,
\* with act unspecified (-1), with no mode at all
OtherProfiles ==
    << [name |-> "skips", mccmnc |-> <<"9", "0", "1", "0", "1">>,
        modes |-> <<0, 13, 0, 38>>, cmnb |-> 1,
        plmn |-> NullStr, act |-> 8],
       [name |-> "no modes", mccmnc |-> <<"9", "0", "1", "0", "2">>,
        modes |-> <<0, 0, 0, 0>>, cmnb |-> 0,
        plmn |-> <<"9", "0", "1", "0", "2">>, act |-> -1],
       [name |-> "lte first", mccmnc |-> <<"9", "0", "1", "0", "3">>,
        modes |-> <<51, 0, 2, 13>>, cmnb |-> 2,
        plmn |-> <<"9", "0", "1", "0", "3">>, act |-> 9] >>

\* the CarrierProfile a non-null pointer refers to: 1..Len(PROFILES) point
\* into the table, the following numbers at OtherProfiles
ProfileAt(p) ==
    IF p <= Len(PROFILES) THEN PROFILES[p] ELSE OtherProfiles[p - Len(PROFILES)]

\* const CarrierProfile *DEFAULT_PROFILE = nullptr
DEFAULT_PROFILE == 0

\* String::operator==(const char *): equal length and equal characters
StrEquals(a, b) == Len(a) = Len(b) /\ \A k \in 1..Len(a) : a[k] = b[k]

\* a lookup that accepts any identifier beginning with a table entry
selectProfile_prefix(mccmnc) ==
    LET hits == {k \in 1..Len(PROFILES) : StartsWith(mccmnc, PROFILES[k].mccmnc)}
    IN  IF hits = {} THEN DEFAULT_PROFILE
        ELSE CHOOSE k \in hits : \A j \in hits : k <= j

\* Modem::selectProfile: the first table entry whose mccmnc equals the argument
selectProfile(mccmnc) ==
    LET hits == {k \in 1..Len(PROFILES) : StrEquals(mccmnc, PROFILES[k].mccmnc)}
    IN  IF hits = {} THEN DEFAULT_PROFILE
        ELSE CHOOSE k \in hits : \A j \in hits : k <= j

\* (variant: no length test, the substring is taken of any identity)
mccmncFromIMSI_noguard(imsi) == Substring(imsi, 0, MccMncLen)

\* Modem::mccmncFromIMSI
mccmncFromIMSI(imsi) ==
    IF Len(imsi) < MccMncLen THEN <<>> ELSE Substring(imsi, 0, MccMncLen)

(***************************************************************************)
(* Transport responses to "+CREG?".  waitResponse(2000L, "+CREG:") returns *)
(* 1 when the prefix arrived (kind "line": line is what readStringUntil    *)
(* ('\n') then yields), 0 after the 2 s timeout, 2 on ERROR.               *)
(***************************************************************************)
TimeoutResp == [kind |-> "timeout", line |-> <<>>]
ErrorResp == [kind |-> "error", line |-> <<>>]
LineResp(l) == [kind |-> "line", line |-> l]

\* the status taken from the text after the first comma, whatever precedes it
\* and without the guard on a missing comma
isCsRegistered_noguard(resp) ==
    IF resp.kind # "line" THEN FALSE
    ELSE LET line == resp.line
             c1 == IndexOf(line, ",", 0)
             c2 == IndexOf(line, ",", c1 + 1)
             statStr == Trim(IF c2 > 0 THEN Substring(line, c1 + 1, c2)
                                       ELSE SubstringFrom(line, c1 + 1))
             stat == ToInt(statStr)
         IN  stat = 1 \/ stat = 5

\* (variant: the status is the text between the second and the third comma)
isCsRegistered_thirdField(resp) ==
    IF resp.kind # "line" THEN FALSE
    ELSE LET line == resp.line
             c1 == IndexOf(line, ",", 0)
             c2 == IndexOf(line, ",", c1 + 1)
             c3 == IndexOf(line, ",", c2 + 1)
         IN  IF c1 < 0 \/ c2 < 0 THEN FALSE
             ELSE LET statStr == Trim(IF c3 > 0 THEN Substring(line, c2 + 1, c3)
                                                ELSE SubstringFrom(line, c2 + 1))
                      stat == ToInt(statStr)
                  IN  stat = 1 \/ stat = 5

\* Modem::isCsRegistered, as a function of the transport's response
isCsRegistered(resp) ==
    IF resp.kind # "line" THEN FALSE
    ELSE LET line == resp.line
             c1 == IndexOf(line, ",", 0)
             c2 == IndexOf(line, ",", c1 + 1)
         IN  IF c1 < 0 THEN FALSE
             ELSE LET statStr == Trim(IF c2 > 0 THEN Substring(line, c1 + 1, c2)
                                                ELSE SubstringFrom(line, c1 + 1))
                      stat == ToInt(statStr)
                  IN  stat = 1 \/ stat = 5

(***************************************************************************)
(* The modem as the environment: what it may answer to one "+CREG?".       *)
(* stat is the registration status the modem means to report (-1: none);   *)
(* the code sees only kind and line.                                       *)
(***************************************************************************)
DecStr(n) ==
    LET d(k) == CASE k = 0 -> "0" [] k = 1 -> "1" [] k = 2 -> "2" [] k = 3 -> "3"
                  [] k = 4 -> "4" [] k = 5 -> "5" [] k = 6 -> "6" [] k = 7 -> "7"
                  [] k = 8 -> "8" [] k = 9 -> "9"
    IN  IF n < 10 THEN <<d(n)>> ELSE <<d(n \div 10), d(n % 10)>>

\* the text after "+CREG:" as the SIM7000 writes it: " <n>,<stat>" and, with
\* location reporting on (+CREG=2), ,"<lac>","<ci>",<act>
CregLine(n, stat, long) ==
    <<" ">> \o DecStr(n) \o <<",">> \o DecStr(stat)
        \o (IF long THEN <<",", "\"", "D", "1", "6", "0", "\"", ",",
                           "\"", "B", "D", "A", "8", "\"", ",", "0">>
                    ELSE <<>>)
        \o <<"\r">>

\* <stat> values of 3GPP TS 27.007 the model lets the modem report
StatCodes == {0, 1, 2, 3, 5, 10}

ModemResponses ==
    {[kind |-> "line", line |-> CregLine(2, s, TRUE), stat |-> s] : s \in StatCodes}
    \cup {[kind |-> "line", line |-> CregLine(0, s, FALSE), stat |-> s] : s \in {1, 2}}
    \cup {[kind |-> "line", line |-> <<"g", "a", "r", "b", "a", "g", "e", "\r">>,
           stat |-> -1],
          [kind |-> "timeout", line |-> <<>>, stat |-> -1],
          [kind |-> "error", line |-> <<>>, stat |-> -1]}

Registered(resp) == resp.stat \in {1, 5}

(***************************************************************************)
(* Program constants of Modem.cpp.                                         *)
(***************************************************************************)
\* The clock is kept in ticks of 4 ms: every delay and timeout of the program
\* is a multiple of 4 ms, and the uint32_t millisecond counter wraps after
\* 2^32 ms = 2^30 ticks, so arithmetic modulo U32 on ticks is the program's
\* arithmetic modulo 2^32 on milliseconds.
Ticks(ms) == ms \div 4
U32 == 1024 * 1024 * 1024
PerModeWaitMs == 30000
LastResortWaitMs == 30000
SmsWaitMs == 15000
PollDelayMs == 500
CregTimeoutMs == 2000
SettleMs == 1500
PowerOnPulseMs == 1000
SerialSettleMs == 600
MaxSmsLen == 160
MinAfterPlus == 7
MinPhoneLen == 7
MaxPhoneLen == 20
MinMessageLen == 1
MaxMessageLen == 480
NumModes == 4

(***************************************************************************)
(* State.                                                                  *)
(***************************************************************************)
\* the tasks (FreeRTOS tasks / callers) that may be inside the Modem object
Tasks == {"t1", "t2"}

\* a probe callback that itself uses the registry does so in a nested call
\* of the task that invoked it: NestedOf(t) names that inner activation
NestedOf(t) == IF t = "t1" THEN "c1" ELSE "c2"
Frames == Tasks \cup {NestedOf(t) : t \in Tasks}

VARIABLES
    now,         \* millis(), in ticks of 4 ms, modulo U32
    pc,          \* per task: where it is inside the Modem call it is running
    op,          \* per task: the Modem method it called last (or is running)
    arg,         \* per task: the (to, text) of its sendSMS / sendSmsSafe call
    result,      \* per task: what its last finished call returned
    callId,      \* per task: the number of its current / last call
    ncalls,      \* calls started so far
    deadline,    \* per task: waitCsRegistered's local deadline
    waitRet,     \* per task: the call site waitCsRegistered returns to
    waitRes,     \* per task: what waitCsRegistered returned to that site
    prof,        \* per task: initModemClean's prof (index into PROFILES, 0 null)
    modeI,       \* per task: setupRadioWithProfile's loop index i
    modemBusy,   \* Modem::modemBusy
    atLog,       \* what was handed to the transport, polls excepted
    outcome,     \* the branch initModemClean's final check took
    regAt,       \* history: loop index whose poll saw the modem registered, or -1
    everReg,     \* history: some poll was answered with status 1 or 5
    enteredBusy, \* history, per task: another sendSmsSafe was in flight at entry
    txRes,       \* history, per task: what modem.sendSMS returned to its call
    pin,         \* input of the pure-function specifications
    pout,        \* their output
    entries_,    \* ProbeRegistry::entries_, slots 0 .. PROBE_MAX-1
    count_,      \* ProbeRegistry::count_
    mtx_,        \* ProbeRegistry::mtx_: "free" or the task that took it
    rpc,         \* per task: where it is inside its ProbeRegistry call
    rop,         \* per task: the ProbeRegistry method it called last
    rname,       \* per task: the name argument
    rfn,         \* per task: the fn argument; in call, the copied callable
    rpred,       \* per task: collectWhere's pred, as the set of names it accepts
    ri,          \* per task: the loop index i
    snap,        \* per task: the local snap[], its first n entries
    doc,         \* per task: the JsonDocument it passed, as <<key, object>> pairs
    invoked,     \* history, per task: the callbacks its call has invoked
    rres,        \* per task: what its last finished call returned
    rcall,       \* history, per task: the number of its registerProbe call
    nreg,        \* registerProbe calls started so far
    nops,        \* call / collectAll / collectWhere calls started so far
    atEntry,     \* history, per task: count_ and entries_ when its call began
    tryCount,    \* per task: initModem's tryCount
    deviceName,  \* GSettings::deviceName
    ssid,        \* GSettings::ssid
    password,    \* GSettings::password
    gsRoot,      \* the JsonObject the last GSettings::toJson filled
    rootPw,      \* history: the stored password when gsRoot was filled
    cbState,     \* per task: its probe callback in progress ("no", "running", "hung")
    hpc,         \* HTTPServer::handleSend: where the handler is
    hreq,        \* the request being handled
    responses,   \* status codes sent for it by server->send, in order
    capCalls,    \* capabilities invoked for it, in order, with what they returned
    led,         \* level last written to the LED pin
    nreq,        \* history: requests dispatched so far
    wpc,         \* WifiConnection::connect, per task: where the call is
    wi,          \* per task: its retry counter i
    wres,        \* per task: what its last connect() returned
    isConnectionTrying,  \* the member flag of WifiConnection
    wifiStatus,  \* what wifiStatus.updateConnection last stored
    wn,          \* history, per task: connect() calls made
    sawTrying,   \* history, per task: another call was past the guard when
                 \* this one tested it
    mpc,         \* main.cpp, the loop task: the statement of setup() / loop() it
                 \* is at, or the call it is inside
    httpServer,  \* main.cpp's httpServer pointer is set
    nboot,       \* history: restarts of the device so far
    bleReq,      \* the BLE read or write the characteristic callbacks got last
    bleLog,      \* what that callback did, in order
    charValue,   \* the value of the characteristic
    nble,        \* history: BLE reads and writes so far
    wlConnected, \* the WiFi stack: WiFi.status() == WL_CONNECTED
    localIP,     \* the WiFi stack: WiFi.localIP()
    lastRead,    \* getIpAddress's static lastRead, in ticks
    wifiRoot,    \* what WifiStatus::toJson stored last, for the 'wifi' probe
    everLost     \* history: a connection that was up has been lost

modemVars == <<now, pc, op, arg, result, callId, ncalls, deadline, waitRet, waitRes,
               prof, modeI, modemBusy, atLog, outcome, regAt, everReg, enteredBusy,
               txRes>>
pureVars == <<pin, pout>>
regVars == <<entries_, count_, mtx_, rpc, rop, rname, rfn, rpred, ri, snap, doc,
             invoked, rres, rcall, nreg, nops, atEntry>>
initModemVars == <<tryCount>>
settingsVars == <<deviceName, ssid, password, gsRoot, rootPw>>
cbVars == <<cbState>>
httpVars == <<hpc, hreq, responses, capCalls, led, nreq>>
wifiVars == <<wpc, wi, wres, isConnectionTrying, wifiStatus, wn, sawTrying>>
fwVars == <<mpc, httpServer, nboot, bleReq, bleLog, charValue, nble>>
statusVars == <<wlConnected, localIP, lastRead, wifiRoot, everLost>>
vars == <<modemVars, pureVars, regVars, initModemVars, settingsVars, cbVars, httpVars, wifiVars, fwVars, statusVars>>

\* what a step of one component leaves alone
notModemVars == <<pureVars, regVars, initModemVars, settingsVars, cbVars, httpVars, wifiVars, fwVars, statusVars>>
notRegVars == <<modemVars, pureVars, initModemVars, settingsVars, cbVars, httpVars, wifiVars, fwVars, statusVars>>
notPureVars == <<modemVars, regVars, initModemVars, settingsVars, cbVars, httpVars, wifiVars, fwVars, statusVars>>
notSettingsVars == <<modemVars, pureVars, regVars, initModemVars, cbVars, httpVars, wifiVars, fwVars, statusVars>>
notRegOrCbVars == <<modemVars, pureVars, initModemVars, settingsVars, httpVars, wifiVars, fwVars, statusVars>>
notHttpVars == <<modemVars, pureVars, regVars, initModemVars, settingsVars, cbVars, wifiVars, fwVars, statusVars>>
notWifiVars == <<modemVars, pureVars, regVars, initModemVars, settingsVars, cbVars,
                 httpVars, fwVars, statusVars>>
notFwOrHttpVars == <<modemVars, pureVars, regVars, initModemVars, settingsVars, cbVars,
                     wifiVars, statusVars>>

NoArg == [to |-> <<>>, text |-> <<>>]

\* a returned bool, as result and waitRes hold it ("none": nothing returned yet)
Ret(b) == IF b THEN "true" ELSE "false"

\* millis() values at which the first call may be made: at boot, and 20 s
\* before the 32-bit counter wraps
StartClocks == {0, U32 - Ticks(20000)}

InitModemAt(clocks) ==
    /\ now \in clocks
    /\ pc = [t \in Tasks |-> "idle"]
    /\ op = [t \in Tasks |-> "none"]
    /\ arg = [t \in Tasks |-> NoArg]
    /\ result = [t \in Tasks |-> "none"]
    /\ callId = [t \in Tasks |-> 0]
    /\ ncalls = 0
    /\ deadline = [t \in Tasks |-> 0]
    /\ waitRet = [t \in Tasks |-> "none"]
    /\ waitRes = [t \in Tasks |-> "none"]
    /\ prof = [t \in Tasks |-> DEFAULT_PROFILE]
    /\ modeI = [t \in Tasks |-> 0]
    /\ modemBusy = FALSE
    /\ atLog = <<>>
    /\ outcome = "none"
    /\ regAt = -1
    /\ everReg = FALSE
    /\ enteredBusy = [t \in Tasks |-> FALSE]
    /\ txRes = [t \in Tasks |-> "none"]
    /\ tryCount = [t \in Tasks |-> 0]

InitPureIdle ==
    /\ pin = [fn |-> "none", id |-> <<>>, resp |-> TimeoutResp]
    /\ pout = [done |-> FALSE]

\* ProbeRegistry.hpp, line 16
PROBE_MAX == 16

\* a slot of entries_ nothing was written to: null name, empty std::function
EmptyEntry == [name |-> <<>>, fn |-> 0]

\* the registry after construction (ProbeRegistry.hpp lines 130-131, 148-151):
\* count_ = 0, the mutex created and free; no task inside a call
InitRegistry ==
    /\ entries_ = [k \in 0..(PROBE_MAX - 1) |-> EmptyEntry]
    /\ count_ = 0
    /\ mtx_ = "free"
    /\ rpc = [t \in Frames |-> "idle"]
    /\ rop = [t \in Frames |-> "none"]
    /\ rname = [t \in Frames |-> <<>>]
    /\ rfn = [t \in Frames |-> 0]
    /\ rpred = [t \in Frames |-> {}]
    /\ ri = [t \in Frames |-> 0]
    /\ snap = [t \in Frames |-> <<>>]
    /\ doc = [t \in Frames |-> <<>>]
    /\ invoked = [t \in Frames |-> <<>>]
    /\ rres = [t \in Frames |-> "none"]
    /\ rcall = [t \in Frames |-> 0]
    /\ nreg = 0
    /\ nops = 0
    /\ atEntry = [t \in Frames |-> [count |-> 0, entries |-> <<>>]]
    /\ cbState = [t \in Tasks |-> "no"]

(***************************************************************************)
(* GSettings: the stored settings and their JSON rendering.                *)
(***************************************************************************)
DefaultDeviceName ==
    <<"E", "S", "P", "3", "2", "-", "B", "L", "E", "-", "E", "x", "a", "m", "p", "l", "e">>

\* the mask suffix of GSettings::toJson, line 133
Mask == <<"*", "*", "*", "*">>
ShownChars == 4

\* no JsonObject filled yet
NoRoot == [done |-> FALSE, deviceName |-> <<>>, ssid |-> <<>>, password |-> <<>>]

\* GSettings::GSettings, GSettings.cpp line 22
InitSettings ==
    /\ deviceName = DefaultDeviceName
    /\ ssid = <<>>
    /\ password = <<>>
    /\ gsRoot = NoRoot
    /\ rootPw = <<>>

\* HTTPServer: no request has been dispatched; the LED pin has not been
\* written by a handler
NoRequest == [body |-> "none", phone |-> <<>>, msgLen |-> 0]

InitHttp ==
    /\ hpc = "idle"
    /\ hreq = NoRequest
    /\ responses = <<>>
    /\ capCalls = <<>>
    /\ led = "LOW"
    /\ nreq = 0

\* main.cpp after reset: setup() has not run a statement, httpServer is null
\* one member of a written JSON document: absent, a string, or of another type
Absent == [kind |-> "absent", val |-> <<>>]
NoPayload ==
    [empty |-> TRUE, valid |-> FALSE, deviceName |-> Absent, ssid |-> Absent,
     password |-> Absent, restart |-> "absent"]
NoBleReq ==
    [kind |-> "none", encrypted |-> FALSE, payload |-> NoPayload,
     wasConnected |-> FALSE, connectOk |-> FALSE, hasNotify |-> FALSE]

InitFw ==
    /\ mpc = "load"
    /\ httpServer = FALSE
    /\ nboot = 0
    /\ bleReq = NoBleReq
    /\ bleLog = <<>>
    /\ charValue = "none"
    /\ nble = 0

\* WifiConnection: isConnectionTrying = false (WifiConnection.hpp line 238),
\* no connect() made
NoConnect == [isConnected |-> FALSE, ip |-> "none"]

\* connect_t::NULL_IP(0, 0, 0, 0), WifiConnection.cpp line 9; an IPAddress is
\* named here by its dotted string
NULL_IP == "0.0.0.0"

\* WifiStatus::WifiStatus() : connection{false, 0U}
Unconnected == [isConnected |-> FALSE, ip |-> NULL_IP]

InitWifi ==
    /\ wpc = [t \in Tasks |-> "idle"]
    /\ wi = [t \in Tasks |-> 0]
    /\ wres = [t \in Tasks |-> NoConnect]
    /\ isConnectionTrying = FALSE
    /\ wifiStatus = Unconnected
    /\ wn = [t \in Tasks |-> 0]
    /\ sawTrying = [t \in Tasks |-> FALSE]

\* the WiFi stack before WiFi.begin(): not connected, no address; toJson not
\* called yet; static uint32_t lastRead = 0
NoWifiRoot == [taken |-> FALSE, connected |-> FALSE, ipAddress |-> NULL_IP]

InitStatus ==
    /\ wlConnected = FALSE
    /\ localIP = NULL_IP
    /\ lastRead = 0
    /\ wifiRoot = NoWifiRoot
    /\ everLost = FALSE

\* the value toJson stores under "password", line 133
RenderPassword(pw) ==
    IF Len(pw) = 0 THEN <<>> ELSE Substring(pw, 0, ShownChars) \o Mask

\* GSettings::setDeviceName, lines 43-46
GSettings_setDeviceName(name) ==
    /\ deviceName' = name
    /\ UNCHANGED <<ssid, password, gsRoot, rootPw>>

\* GSettings::setSsid, lines 63-66
GSettings_setSsid(name) ==
    /\ ssid' = name
    /\ UNCHANGED <<deviceName, password, gsRoot, rootPw>>

\* GSettings::setPassword, lines 83-86
GSettings_setPassword(pw) ==
    /\ password' = pw
    /\ UNCHANGED <<deviceName, ssid, gsRoot, rootPw>>

\* GSettings::toJson, lines 129-134, on an empty JsonObject
GSettings_toJson ==
    /\ gsRoot' = [done |-> TRUE, deviceName |-> deviceName, ssid |-> ssid,
                  password |-> RenderPassword(password)]
    /\ rootPw' = password
    /\ UNCHANGED <<deviceName, ssid, password>>

\* one entry of atLog: an AT command or an SMS submission, by call and code site
\* (site "loop": pos is the loop index i; elsewhere pos is -1)
Cmd(id, c, a, site, pos) ==
    [cmd |-> c, arg |-> a, call |-> id, site |-> site, pos |-> pos]

\* a call begins: it gets the next call number
BeginCall(t, name) ==
    /\ pc[t] = "idle"
    /\ ncalls' = ncalls + 1
    /\ callId' = [callId EXCEPT ![t] = ncalls + 1]
    /\ op' = [op EXCEPT ![t] = name]

(***************************************************************************)
(* Modem::initModemClean and Modem::setupRadioWithProfile.                 *)
(***************************************************************************)
\* what readIMSI() may return: nothing (query failed), a short line, the three
\* carriers of the table, an unknown carrier
Subscriber == <<"0", "1", "2", "3", "4", "5", "6", "7", "8", "9">>
IMSIs ==
    { <<>>,
      <<"2", "2", "6", "0">>,
      <<"2", "2", "6", "0", "1">> \o Subscriber,
      <<"2", "2", "6", "0", "5">> \o Subscriber,
      <<"2", "2", "6", "1", "0">> \o Subscriber,
      <<"0", "0", "0", "0", "0">> \o Subscriber }

\* initModemClean, lines 173-187: power-on pulse, UART, settle delay,
\* modem.init(), and modem.restart() when that failed; no return on failure
InitModemClean_Begin(t, initOk) ==
    /\ BeginCall(t, "initModemClean")
    /\ now' = (now + Ticks(PowerOnPulseMs) + Ticks(SerialSettleMs)) % U32
    /\ atLog' = atLog \o <<Cmd(ncalls + 1, "PWRKEY", "on", "init", -1),
                           Cmd(ncalls + 1, "init", initOk, "init", -1)>>
                      \o (IF initOk THEN <<>>
                          ELSE <<Cmd(ncalls + 1, "restart", "tinygsm", "init", -1)>>)
    /\ pc' = [pc EXCEPT ![t] = "identity"]
    /\ result' = [result EXCEPT ![t] = "none"]
    /\ outcome' = "none"
    /\ regAt' = -1
    /\ UNCHANGED <<arg, deadline, waitRet, waitRes, prof, modeI,
                   modemBusy, everReg, enteredBusy, txRes>>

\* initModemClean, lines 189-217: modem name/info, SIM unlock, readIMSI,
\* mccmncFromIMSI, selectProfile, DTR low, "+CNMP?"
InitModemClean_Identity(t, imsi) ==
    /\ pc[t] = "identity"
    /\ prof' = [prof EXCEPT ![t] = selectProfile(mccmncFromIMSI(imsi))]
    /\ atLog' = atLog \o <<Cmd(callId[t], "CIMI", "", "init", -1),
                           Cmd(callId[t], "CNMP?", "", "init", -1)>>
    /\ pc' = [pc EXCEPT ![t] = "setup"]
    /\ UNCHANGED <<now, op, arg, result, callId, ncalls, deadline, waitRet, waitRes,
                   modeI, modemBusy, outcome, regAt, everReg, enteredBusy, txRes>>

\* (variant: the lock is sent whatever act is)
CopsCmd_anyAct(p) ==
    IF p # 0 /\ ProfileAt(p).plmn # NullStr
    THEN <<1, 2, ProfileAt(p).plmn, ProfileAt(p).act>>
    ELSE <<0>>

\* the operator-selection command of setupRadioWithProfile, lines 301-310
CopsCmd(p) ==
    IF p # 0 /\ ProfileAt(p).plmn # NullStr /\ ProfileAt(p).act >= 0
    THEN <<1, 2, ProfileAt(p).plmn, ProfileAt(p).act>>
    ELSE <<0>>

\* setupRadioWithProfile, lines 293-310: URCs on, operator selection
SetupRadio_Begin(t) ==
    /\ pc[t] = "setup"
    /\ atLog' = atLog \o <<Cmd(callId[t], "CREG=", 2, "setup", -1),
                           Cmd(callId[t], "CGREG=", 2, "setup", -1),
                           Cmd(callId[t], "COPS=", CopsCmd(prof[t]), "setup", -1)>>
    /\ modeI' = [modeI EXCEPT ![t] = 0]
    /\ pc' = [pc EXCEPT ![t] = "mode"]
    /\ UNCHANGED <<now, op, arg, result, callId, ncalls, deadline, waitRet, waitRes,
                   prof, modemBusy, outcome, regAt, everReg, enteredBusy, txRes>>

\* (variant: without a profile the first table entry's modes are used)
ModeAt_firstEntry(p, i) ==
    IF p # 0 THEN ProfileAt(p).modes[i + 1] ELSE PROFILES[1].modes[i + 1]

\* (variant: the entries are read from the far end)
ModeAt_backwards(p, i) == IF p # 0 THEN ProfileAt(p).modes[NumModes - i] ELSE 2

\* uint8_t mode = prof ? prof->modes[i] : 2
ModeAt(p, i) == IF p # 0 THEN ProfileAt(p).modes[i + 1] ELSE 2

\* the test of line 330
\* (variant: the LTE preference is set in every mode)
WantsCmnb_anyMode(p, mode) == p # 0 /\ ProfileAt(p).cmnb >= 0

WantsCmnb(p, mode) == p # 0 /\ ProfileAt(p).cmnb >= 0 /\ mode \in {38, 51}

\* the commands of one loop iteration, lines 320-334
ModeCmds(id, p, i) ==
    <<Cmd(id, "CNMP=", ModeAt(p, i), "loop", i), Cmd(id, "CMNB?", "", "loop", i)>>
        \o (IF WantsCmnb(p, ModeAt(p, i))
            THEN <<Cmd(id, "CMNB=", ProfileAt(p).cmnb, "loop", i)>>
            ELSE <<>>)

\* setupRadioWithProfile, lines 313-346: the head of one loop iteration, up to
\* the call of waitCsRegistered(30000); after the last iteration, return false
\* to initModemClean, whose !setupRadioWithProfile(prof) branch runs next
SetupRadio_Mode(t) ==
    /\ pc[t] = "mode"
    /\ IF modeI[t] >= NumModes
       THEN /\ pc' = [pc EXCEPT ![t] = "lastresort"]
            /\ UNCHANGED <<now, atLog, modeI, deadline, waitRet>>
       ELSE IF ModeAt(prof[t], modeI[t]) = 0
       THEN /\ modeI' = [modeI EXCEPT ![t] = @ + 1]
            /\ UNCHANGED <<now, atLog, pc, deadline, waitRet>>
       ELSE /\ atLog' = atLog \o ModeCmds(callId[t], prof[t], modeI[t])
            /\ now' = (now + Ticks(SettleMs)) % U32
            /\ deadline' = [deadline EXCEPT ![t] = (now' + Ticks(PerModeWaitMs)) % U32]
            /\ waitRet' = [waitRet EXCEPT ![t] = "mode"]
            /\ pc' = [pc EXCEPT ![t] = "wait"]
            /\ UNCHANGED modeI
    /\ UNCHANGED <<op, arg, result, callId, ncalls, waitRes, prof, modemBusy,
                   outcome, regAt, everReg, enteredBusy, txRes>>

\* initModemClean, lines 221-224: "+CNMP=2", then waitCsRegistered(30000)
InitModemClean_LastResort(t) ==
    /\ pc[t] = "lastresort"
    /\ atLog' = Append(atLog, Cmd(callId[t], "CNMP=", 2, "last", -1))
    /\ deadline' = [deadline EXCEPT ![t] = (now + Ticks(LastResortWaitMs)) % U32]
    /\ waitRet' = [waitRet EXCEPT ![t] = "last"]
    /\ pc' = [pc EXCEPT ![t] = "wait"]
    /\ UNCHANGED <<now, op, arg, result, callId, ncalls, waitRes, prof, modeI,
                   modemBusy, outcome, regAt, everReg, enteredBusy, txRes>>

\* the time one isCsRegistered() takes: the 2 s of waitResponse when nothing
\* matching arrives
PollTime(resp) == IF resp.kind = "timeout" THEN Ticks(CregTimeoutMs) ELSE 0

\* the branch of lines 227-234
\* (variant: the two branches swapped)
OutcomeOf_swapped(registered) == IF registered THEN "Exhausted" ELSE "Registered"

OutcomeOf(registered) == IF registered THEN "Registered" ELSE "Exhausted"

\* initModemClean, lines 227-235: the final isCsRegistered() and return
InitModemClean_Final(t, resp) ==
    /\ pc[t] = "final"
    /\ now' = (now + PollTime(resp)) % U32
    /\ outcome' = OutcomeOf(isCsRegistered(resp))
    /\ everReg' = (everReg \/ Registered(resp))
    /\ result' = [result EXCEPT ![t] = "void"]
    /\ pc' = [pc EXCEPT ![t] = "idle"]
    /\ UNCHANGED <<op, arg, callId, ncalls, deadline, waitRet, waitRes, prof, modeI,
                   modemBusy, atLog, regAt, enteredBusy, txRes>>

(***************************************************************************)
(* Modem::initModem, Modem::modemRestart.                                  *)
(***************************************************************************)
PowerOffPulseMs == 1500
RestartGapMs == 1000
AfterRestartMs == 2000
ModeSettleMs == 3000
TryDelayMs == 1000
TryCountStart == 60
GsmOnlyMode == 13

\* initModem's network[] (lines 110-115), index 0..3
Network(i) == <<13, 51, 38, 2>>[i + 1]

\* modemRestart, lines 486-491: the off pulse, the gap, the on pulse
ModemRestart(id) ==
    <<Cmd(id, "PWRKEY", "off", "restart", -1), Cmd(id, "PWRKEY", "on", "restart", -1)>>

ModemRestartMs == Ticks(PowerOffPulseMs) + Ticks(RestartGapMs) + Ticks(PowerOnPulseMs)

\* what initModem does when modem.init() returned initOk, lines 50-56
AfterInit(initOk) == IF initOk THEN "im_queries" ELSE "idle"

\* initModem, lines 43-56: UART, settle delay, DTR low, modem.init(); when
\* that failed modemRestart(), delay(2000) and return
InitModem_Begin(t, initOk) ==
    /\ BeginCall(t, "initModem")
    /\ atLog' = atLog \o <<Cmd(ncalls + 1, "init", initOk, "init", -1)>>
                      \o (IF initOk THEN <<>> ELSE ModemRestart(ncalls + 1))
    /\ now' = (now + Ticks(SerialSettleMs)
                  + (IF initOk THEN 0 ELSE ModemRestartMs + Ticks(AfterRestartMs))) % U32
    /\ pc' = [pc EXCEPT ![t] = AfterInit(initOk)]
    /\ result' = [result EXCEPT ![t] = IF initOk THEN "none" ELSE "void"]
    /\ outcome' = "none"
    /\ regAt' = -1
    /\ UNCHANGED <<arg, deadline, waitRet, waitRes, prof, modeI, modemBusy, everReg,
                   enteredBusy, txRes, tryCount>>

\* initModem, lines 58-106: the information queries, SIM unlock, "+CNMP=13",
\* URCs on
InitModem_Queries(t) ==
    /\ pc[t] = "im_queries"
    /\ atLog' = atLog \o <<Cmd(callId[t], "SIMCOMATI", "", "init", -1),
                           Cmd(callId[t], "CNMP?", "", "init", -1),
                           Cmd(callId[t], "CMNB?", "", "init", -1),
                           Cmd(callId[t], "CNMP=", GsmOnlyMode, "pre", -1),
                           Cmd(callId[t], "CREG=", 2, "setup", -1),
                           Cmd(callId[t], "CGREG=", 2, "setup", -1)>>
    /\ modeI' = [modeI EXCEPT ![t] = 0]
    /\ pc' = [pc EXCEPT ![t] = "im_mode"]
    /\ UNCHANGED <<now, op, arg, result, callId, ncalls, deadline, waitRet, waitRes,
                   prof, modemBusy, outcome, regAt, everReg, enteredBusy, txRes,
                   tryCount>>

\* initModem, lines 108-120: the head of one turn of the for loop, or its end
InitModem_Mode(t) ==
    /\ pc[t] = "im_mode"
    /\ IF modeI[t] >= NumModes
       THEN /\ pc' = [pc EXCEPT ![t] = "im_end"]
            /\ UNCHANGED <<now, atLog, tryCount>>
       ELSE /\ atLog' = Append(atLog, Cmd(callId[t], "CNMP=", Network(modeI[t]), "loop", modeI[t]))
            /\ now' = (now + Ticks(ModeSettleMs)) % U32
            /\ tryCount' = [tryCount EXCEPT ![t] = TryCountStart]
            /\ pc' = [pc EXCEPT ![t] = "im_try"]
    /\ UNCHANGED <<op, arg, result, callId, ncalls, deadline, waitRet, waitRes, prof,
                   modeI, modemBusy, outcome, regAt, everReg, enteredBusy, txRes>>

\* initModem, lines 121-149: the test while (tryCount--) and one turn of the
\* inner loop (status queries, isCsRegistered(), delay(1000)); a registered
\* answer leaves both loops, a used-up tryCount goes to the next i
InitModem_Try(t, resp) ==
    /\ pc[t] = "im_try"
    /\ tryCount' = [tryCount EXCEPT ![t] = @ - 1]
    /\ IF tryCount[t] = 0
       THEN /\ modeI' = [modeI EXCEPT ![t] = @ + 1]
            /\ pc' = [pc EXCEPT ![t] = "im_mode"]
            /\ UNCHANGED <<now, everReg, regAt>>
       ELSE /\ everReg' = (everReg \/ Registered(resp))
            /\ regAt' = IF Registered(resp) /\ regAt = -1 THEN modeI[t] ELSE regAt
            /\ IF isCsRegistered(resp)
               THEN /\ now' = (now + PollTime(resp)) % U32
                    /\ pc' = [pc EXCEPT ![t] = "im_end"]
               ELSE /\ now' = (now + PollTime(resp) + Ticks(TryDelayMs)) % U32
                    /\ UNCHANGED pc
            /\ UNCHANGED modeI
    /\ UNCHANGED <<op, arg, result, callId, ncalls, deadline, waitRet, waitRes, prof,
                   modemBusy, atLog, outcome, enteredBusy, txRes>>

\* initModem, lines 151-164: "+CPSI?" and return
InitModem_End(t) ==
    /\ pc[t] = "im_end"
    /\ atLog' = Append(atLog, Cmd(callId[t], "CPSI?", "", "init", -1))
    /\ result' = [result EXCEPT ![t] = "void"]
    /\ pc' = [pc EXCEPT ![t] = "idle"]
    /\ UNCHANGED <<now, op, arg, callId, ncalls, deadline, waitRet, waitRes, prof,
                   modeI, modemBusy, outcome, regAt, everReg, enteredBusy, txRes,
                   tryCount>>

(***************************************************************************)
(* Modem::waitCsRegistered and the polls it makes.                         *)
(***************************************************************************)
\* sendSmsSafe, line 445: the call goes on to the transport when its wait
\* returned true
\* (variant: the wait's result is ignored)
SmsProceeds_always(val) == TRUE

SmsProceeds(val) == val

\* sendSmsSafe, lines 452-455, once its wait returned true: "+CMGF=1", then
\* the message is handed to modem.sendSMS
SmsSafeSubmit(id, a) ==
    <<Cmd(id, "CMGF=", 1, "sms", -1), Cmd(id, "SMS", a, "sms", -1)>>

\* setupRadioWithProfile, lines 340-345: a true wait returns true (on to
\* initModemClean's final check), a false one goes round the loop
\* (variant: the loop goes on after a successful wait)
AfterModeWait_noexit(val) == "mode"

AfterModeWait(val) == IF val THEN "final" ELSE "mode"

\* sendSmsSafe, line 447: the value modemBusy gets when the wait for
\* registration failed
\* (variant: the flag is left set)
BusyOnAbort_kept == TRUE

BusyOnAbort == FALSE

\* The continuation at the call site waitCsRegistered(ms) returns val to:
\*   "mode": setupRadioWithProfile line 340 (true: return true, to initModemClean's
\*           final check; false: next i)
\*   "last": initModemClean line 224 (the value is dropped)
\*   "sms":  sendSmsSafe line 445 (false: clear modemBusy, return false;
\*           true: lines 452-455)
\*   "call": a caller of the public method itself (the value is its result)
WaitReturns(t, val) ==
    /\ waitRes' = [waitRes EXCEPT ![t] = Ret(val)]
    /\ CASE waitRet[t] = "call" ->
              /\ result' = [result EXCEPT ![t] = Ret(val)]
              /\ pc' = [pc EXCEPT ![t] = "idle"]
              /\ UNCHANGED <<modeI, modemBusy, atLog>>
         [] waitRet[t] = "mode" ->
              /\ pc' = [pc EXCEPT ![t] = AfterModeWait(val)]
              /\ modeI' = [modeI EXCEPT ![t] = IF val THEN @ ELSE @ + 1]
              /\ UNCHANGED <<modemBusy, result, atLog>>
         [] waitRet[t] = "last" ->
              /\ pc' = [pc EXCEPT ![t] = "final"]
              /\ UNCHANGED <<modeI, modemBusy, result, atLog>>
         [] waitRet[t] = "sms" ->
              IF SmsProceeds(val)
              THEN /\ atLog' = atLog \o SmsSafeSubmit(callId[t], arg[t])
                   /\ pc' = [pc EXCEPT ![t] = "tx"]
                   /\ UNCHANGED <<modeI, modemBusy, result>>
              ELSE /\ modemBusy' = BusyOnAbort
                   /\ result' = [result EXCEPT ![t] = Ret(FALSE)]
                   /\ pc' = [pc EXCEPT ![t] = "idle"]
                   /\ UNCHANGED <<modeI, atLog>>

\* waitCsRegistered, line 379: the loop test millis() < deadline; when it
\* fails the function returns false (line 385)
WaitCsRegistered_Test(t) ==
    /\ pc[t] = "wait"
    /\ IF now < deadline[t]
       THEN /\ pc' = [pc EXCEPT ![t] = "poll"]
            /\ UNCHANGED <<waitRes, modeI, modemBusy, result, atLog>>
       ELSE WaitReturns(t, FALSE)
    /\ UNCHANGED <<now, op, arg, callId, ncalls, deadline, waitRet, prof,
                   outcome, regAt, everReg, enteredBusy, txRes>>

\* waitCsRegistered, lines 381-383: one isCsRegistered(); true returns true,
\* otherwise delay(500) and back to the loop test
WaitCsRegistered_Poll(t, resp) ==
    /\ pc[t] = "poll"
    /\ everReg' = (everReg \/ Registered(resp))
    /\ regAt' = IF waitRet[t] = "mode" /\ Registered(resp) /\ regAt = -1
                THEN modeI[t] ELSE regAt
    /\ IF isCsRegistered(resp)
       THEN /\ now' = (now + PollTime(resp)) % U32
            /\ WaitReturns(t, TRUE)
       ELSE /\ now' = (now + PollTime(resp) + Ticks(PollDelayMs)) % U32
            /\ pc' = [pc EXCEPT ![t] = "wait"]
            /\ UNCHANGED <<waitRes, modeI, modemBusy, result, atLog>>
    /\ UNCHANGED <<op, arg, callId, ncalls, deadline, waitRet, prof, outcome,
                   enteredBusy, txRes>>

\* a caller's own waitCsRegistered(ms), line 378: the deadline is the 32-bit
\* sum millis() + ms
WaitDeadline(ms) == (now + Ticks(ms)) % U32

WaitCsRegistered_Call(t, ms) ==
    /\ BeginCall(t, "waitCsRegistered")
    /\ deadline' = [deadline EXCEPT ![t] = WaitDeadline(ms)]
    /\ waitRet' = [waitRet EXCEPT ![t] = "call"]
    /\ waitRes' = [waitRes EXCEPT ![t] = "none"]
    /\ pc' = [pc EXCEPT ![t] = "wait"]
    /\ result' = [result EXCEPT ![t] = "none"]
    /\ UNCHANGED <<now, arg, prof, modeI, modemBusy, atLog, outcome, regAt,
                   everReg, enteredBusy, txRes>>

\* a caller's own isCsRegistered()
IsCsRegistered_Call(t, resp) ==
    /\ BeginCall(t, "isCsRegistered")
    /\ now' = (now + PollTime(resp)) % U32
    /\ everReg' = (everReg \/ Registered(resp))
    /\ result' = [result EXCEPT ![t] = Ret(isCsRegistered(resp))]
    /\ UNCHANGED <<pc, arg, deadline, waitRet, waitRes, prof, modeI, modemBusy,
                   atLog, outcome, regAt, enteredBusy, txRes>>

(***************************************************************************)
(* Modem::sendSMS and Modem::sendSmsSafe.                                  *)
(***************************************************************************)
\* (variant: the recipient is not checked)
SmsSafeAccepts_anyTo(to, text) ==
    ~(Len(text) < 1 \/ Len(text) > MaxSmsLen)

\* (variant: a text of exactly MaxSmsLen characters is refused)
SmsSafeAccepts_short(to, text) ==
    /\ ~(Len(text) < 1 \/ Len(text) >= MaxSmsLen)
    /\ StartsWith(to, <<"+">>) /\ Len(SubstringFrom(to, 1)) >= MinAfterPlus

\* sendSmsSafe's two argument checks, lines 438-441
SmsSafeAccepts(to, text) ==
    /\ ~(Len(text) < 1 \/ Len(text) > MaxSmsLen)
    /\ StartsWith(to, <<"+">>) /\ Len(SubstringFrom(to, 1)) >= MinAfterPlus

\* another task is inside sendSmsSafe between line 443 and its return
InFlight(t) == op[t] = "sendSmsSafe" /\ pc[t] \in {"wait", "poll", "tx"}

\* sendSmsSafe, lines 436-445: the checks, modemBusy = true, and the entry to
\* waitCsRegistered(15000)
SendSmsSafe_Begin(t, to, text) ==
    /\ BeginCall(t, "sendSmsSafe")
    /\ arg' = [arg EXCEPT ![t] = [to |-> to, text |-> text]]
    /\ enteredBusy' = [enteredBusy EXCEPT
                         ![t] = modemBusy /\ \E u \in Tasks \ {t} : InFlight(u)]
    /\ waitRes' = [waitRes EXCEPT ![t] = "none"]
    /\ IF SmsSafeAccepts(to, text)
       THEN /\ modemBusy' = TRUE
            /\ deadline' = [deadline EXCEPT ![t] = (now + Ticks(SmsWaitMs)) % U32]
            /\ waitRet' = [waitRet EXCEPT ![t] = "sms"]
            /\ pc' = [pc EXCEPT ![t] = "wait"]
            /\ result' = [result EXCEPT ![t] = "none"]
       ELSE /\ result' = [result EXCEPT ![t] = Ret(FALSE)]
            /\ UNCHANGED <<modemBusy, deadline, waitRet, pc>>
    /\ txRes' = [txRes EXCEPT ![t] = "none"]
    /\ UNCHANGED <<now, prof, modeI, atLog, outcome, regAt, everReg>>

\* sendSMS, lines 424-428: the message goes to modem.sendSMS as it is
SendSMS_Begin(t, to, text) ==
    /\ BeginCall(t, "sendSMS")
    /\ arg' = [arg EXCEPT ![t] = [to |-> to, text |-> text]]
    /\ atLog' = Append(atLog, Cmd(ncalls + 1, "SMS", arg'[t], "sms", -1))
    /\ pc' = [pc EXCEPT ![t] = "tx"]
    /\ result' = [result EXCEPT ![t] = "none"]
    /\ txRes' = [txRes EXCEPT ![t] = "none"]
    /\ UNCHANGED <<now, deadline, waitRet, waitRes, prof, modeI, modemBusy,
                   outcome, regAt, everReg, enteredBusy>>

\* what sendSMS (line 427) and sendSmsSafe (lines 455-458) return when
\* modem.sendSMS returned ok
SmsReturnValue(ok) == ok

\* modem.sendSMS returns ok: sendSMS returns it; sendSmsSafe clears modemBusy
\* and returns it (lines 455-458)
Transport_Return(t, ok) ==
    /\ pc[t] = "tx"
    /\ modemBusy' = IF op[t] = "sendSmsSafe" THEN FALSE ELSE modemBusy
    /\ txRes' = [txRes EXCEPT ![t] = Ret(ok)]
    /\ result' = [result EXCEPT ![t] = Ret(SmsReturnValue(ok))]
    /\ pc' = [pc EXCEPT ![t] = "idle"]
    /\ UNCHANGED <<now, op, arg, callId, ncalls, deadline, waitRet, waitRes, prof,
                   modeI, atLog, outcome, regAt, everReg, enteredBusy>>

(***************************************************************************)
(* Specifications.                                                         *)
(***************************************************************************)
\* SpecInit: one task runs initModemClean once, then asks isCsRegistered()
NextInit ==
    \E t \in {"t1"} :
        \/ /\ ncalls = 0
           /\ \E ok \in BOOLEAN : InitModemClean_Begin(t, ok)
           /\ UNCHANGED notModemVars
        \/ (\E imsi \in IMSIs : InitModemClean_Identity(t, imsi)) /\ UNCHANGED notModemVars
        \/ SetupRadio_Begin(t) /\ UNCHANGED notModemVars
        \/ SetupRadio_Mode(t) /\ UNCHANGED notModemVars
        \/ InitModemClean_LastResort(t) /\ UNCHANGED notModemVars
        \/ WaitCsRegistered_Test(t) /\ UNCHANGED notModemVars
        \/ /\ \E resp \in ModemResponses : WaitCsRegistered_Poll(t, resp)
           /\ UNCHANGED notModemVars
        \/ /\ \E resp \in ModemResponses : InitModemClean_Final(t, resp)
           /\ UNCHANGED notModemVars
        \/ /\ ncalls >= 1 /\ ncalls < 1 + MaxFollowUps
           /\ \E resp \in ModemResponses : IsCsRegistered_Call(t, resp)
           /\ UNCHANGED notModemVars

InitInit == InitModemAt(StartClocks) /\ InitPureIdle /\ InitRegistry /\ InitSettings /\ InitHttp /\ InitWifi /\ InitFw /\ InitStatus

SpecInit == InitInit /\ [][NextInit]_vars

\* SpecRadio: a run of initModemClean in which the profile handed to
\* setupRadioWithProfile is any of the table's entries, one of OtherProfiles,
\* or null
ProfilePointers == 0..(Len(PROFILES) + Len(OtherProfiles))

\* initModemClean, lines 189-219, where the lookup yields profile p
SetupRadio_With(t, p) ==
    /\ pc[t] = "identity"
    /\ prof' = [prof EXCEPT ![t] = p]
    /\ atLog' = atLog \o <<Cmd(callId[t], "CIMI", "", "init", -1),
                           Cmd(callId[t], "CNMP?", "", "init", -1)>>
    /\ pc' = [pc EXCEPT ![t] = "setup"]
    /\ UNCHANGED <<now, op, arg, result, callId, ncalls, deadline, waitRet, waitRes,
                   modeI, modemBusy, outcome, regAt, everReg, enteredBusy, txRes>>

NextRadio ==
    \E t \in {"t1"} :
        \/ /\ ncalls = 0
           /\ InitModemClean_Begin(t, TRUE)
           /\ UNCHANGED notModemVars
        \/ (\E p \in ProfilePointers : SetupRadio_With(t, p)) /\ UNCHANGED notModemVars
        \/ SetupRadio_Begin(t) /\ UNCHANGED notModemVars
        \/ SetupRadio_Mode(t) /\ UNCHANGED notModemVars
        \/ InitModemClean_LastResort(t) /\ UNCHANGED notModemVars
        \/ WaitCsRegistered_Test(t) /\ UNCHANGED notModemVars
        \/ /\ \E resp \in ModemResponses : WaitCsRegistered_Poll(t, resp)
           /\ UNCHANGED notModemVars
        \/ /\ \E resp \in ModemResponses : InitModemClean_Final(t, resp)
           /\ UNCHANGED notModemVars

InitRadio == InitModemAt({0}) /\ InitPureIdle /\ InitRegistry /\ InitSettings /\ InitHttp /\ InitWifi /\ InitFw /\ InitStatus

SpecRadio == InitRadio /\ [][NextRadio]_vars

\* SpecInitWrap: the same run of initModemClean, begun when the deadline of
\* the first polling window falls GapMs before the 32-bit clock wraps. The
\* run is followed for HorizonMs of clock time
GapMs == 1000
HorizonMs == 200000
WrapClock ==
    U32 - Ticks(PowerOnPulseMs) - Ticks(SerialSettleMs) - Ticks(SettleMs)
        - Ticks(PerModeWaitMs) - Ticks(GapMs)

\* clock time since the run began, in ticks
Elapsed == (now + U32 - WrapClock) % U32

NextInitWrap ==
    \E t \in {"t1"} :
        \/ /\ ncalls = 0
           /\ \E ok \in BOOLEAN : InitModemClean_Begin(t, ok)
           /\ UNCHANGED notModemVars
        \/ (\E imsi \in IMSIs : InitModemClean_Identity(t, imsi)) /\ UNCHANGED notModemVars
        \/ SetupRadio_Begin(t) /\ UNCHANGED notModemVars
        \/ SetupRadio_Mode(t) /\ UNCHANGED notModemVars
        \/ InitModemClean_LastResort(t) /\ UNCHANGED notModemVars
        \/ WaitCsRegistered_Test(t) /\ UNCHANGED notModemVars
        \/ /\ Elapsed <= Ticks(HorizonMs)
           /\ \E resp \in ModemResponses : WaitCsRegistered_Poll(t, resp)
           /\ UNCHANGED notModemVars
        \/ /\ \E resp \in ModemResponses : InitModemClean_Final(t, resp)
           /\ UNCHANGED notModemVars
        \/ /\ ncalls >= 1 /\ ncalls < 1 + MaxFollowUps
           /\ \E resp \in ModemResponses : IsCsRegistered_Call(t, resp)
           /\ UNCHANGED notModemVars

InitInitWrap == InitModemAt({WrapClock}) /\ InitPureIdle /\ InitRegistry /\ InitSettings /\ InitHttp /\ InitWifi /\ InitFw /\ InitStatus

SpecInitWrap == InitInitWrap /\ [][NextInitWrap]_vars

\* SpecWait: one task calls waitCsRegistered(ms) once. The call is made at
\* boot, GapMs before a deadline that still fits the 32-bit clock, half of
\* ms before the clock wraps, or one tick before it wraps; polls are followed
\* until WaitHorizonMs after ms
WaitMsValues == {SmsWaitMs, PerModeWaitMs}
WaitHorizonMs == 10000

WaitClocks(ms) ==
    {0, U32 - Ticks(ms) - Ticks(GapMs), U32 - Ticks(ms) \div 2, U32 - 1}

WaitInputs ==
    {[fn |-> "waitCsRegistered", ms |-> ms, start |-> c] :
        ms \in WaitMsValues, c \in UNION {WaitClocks(m) : m \in WaitMsValues}}

\* clock time since the call, in ticks
WaitElapsed == (now + U32 - pin.start) % U32

NextWait ==
    \E t \in {"t1"} :
        \/ /\ ncalls = 0
           /\ WaitCsRegistered_Call(t, pin.ms)
           /\ UNCHANGED notModemVars
        \/ WaitCsRegistered_Test(t) /\ UNCHANGED notModemVars
        \/ /\ WaitElapsed <= Ticks(pin.ms) + Ticks(WaitHorizonMs)
           /\ \E resp \in ModemResponses : WaitCsRegistered_Poll(t, resp)
           /\ UNCHANGED notModemVars

InitWait ==
    /\ InitModemAt(UNION {WaitClocks(m) : m \in WaitMsValues})
    /\ pin \in WaitInputs
    /\ pin.start = now
    /\ pout = [done |-> FALSE]
    /\ InitRegistry /\ InitSettings /\ InitHttp /\ InitWifi /\ InitFw /\ InitStatus

SpecWait == InitWait /\ [][NextWait]_vars

\* SpecInitModem: one task runs initModem once
NextInitModem ==
    \E t \in {"t1"} :
        \/ /\ ncalls = 0
           /\ \E ok \in BOOLEAN : InitModem_Begin(t, ok)
           /\ UNCHANGED <<pureVars, regVars, settingsVars, cbVars, httpVars, wifiVars, fwVars, statusVars>>
        \/ InitModem_Queries(t) /\ UNCHANGED <<pureVars, regVars, settingsVars, cbVars, httpVars, wifiVars, fwVars, statusVars>>
        \/ InitModem_Mode(t) /\ UNCHANGED <<pureVars, regVars, settingsVars, cbVars, httpVars, wifiVars, fwVars, statusVars>>
        \/ /\ \E resp \in ModemResponses : InitModem_Try(t, resp)
           /\ UNCHANGED <<pureVars, regVars, settingsVars, cbVars, httpVars, wifiVars, fwVars, statusVars>>
        \/ InitModem_End(t) /\ UNCHANGED <<pureVars, regVars, settingsVars, cbVars, httpVars, wifiVars, fwVars, statusVars>>

InitInitModem == InitModemAt({0}) /\ InitPureIdle /\ InitRegistry /\ InitSettings /\ InitHttp /\ InitWifi /\ InitFw /\ InitStatus

SpecInitModem == InitInitModem /\ [][NextInitModem]_vars

\* recipients and texts the SMS specifications draw from
Tos ==
    { <<"1", "2", "3", "4", "5", "6">>,
      <<"+", "1", "2", "3", "4", "5", "6">>,
      <<"+", "1", "2", "3", "4", "5", "6", "7">>,
      <<"+", "a", "b", "c", "d", "e", "f", "g">> }
TextOfLen(n) == [k \in 1..n |-> "x"]
Texts == {TextOfLen(n) : n \in {0, 1, MaxSmsLen, MaxSmsLen + 1}}

\* SpecSms: one caller of sendSMS and sendSmsSafe
NextSms ==
    \E t \in {"t1"} :
        \/ /\ ncalls < MaxSmsCalls
           /\ \E to \in Tos, text \in Texts : SendSmsSafe_Begin(t, to, text)
           /\ UNCHANGED notModemVars
        \/ /\ ncalls < MaxSmsCalls
           /\ \E to \in Tos, text \in Texts : SendSMS_Begin(t, to, text)
           /\ UNCHANGED notModemVars
        \/ WaitCsRegistered_Test(t) /\ UNCHANGED notModemVars
        \/ /\ \E resp \in ModemResponses : WaitCsRegistered_Poll(t, resp)
           /\ UNCHANGED notModemVars
        \/ (\E ok \in BOOLEAN : Transport_Return(t, ok)) /\ UNCHANGED notModemVars

InitSms == InitModemAt(StartClocks) /\ InitPureIdle /\ InitRegistry /\ InitSettings /\ InitHttp /\ InitWifi /\ InitFw /\ InitStatus

SpecSms == InitSms /\ [][NextSms]_vars

\* SpecSmsConc: two tasks call sendSmsSafe on the same Modem, from boot time;
\* the tasks being alike, the one that calls first is named t1
ConcTos == {<<"1", "2", "3", "4", "5", "6">>, <<"+", "1", "2", "3", "4", "5", "6", "7">>}
ConcTexts == {TextOfLen(1)}

NextSmsConc ==
    \E t \in Tasks :
        \/ /\ ncalls < MaxConcCalls
           /\ ncalls = 0 => t = "t1"
           /\ \E to \in ConcTos, text \in ConcTexts : SendSmsSafe_Begin(t, to, text)
           /\ UNCHANGED notModemVars
        \/ WaitCsRegistered_Test(t) /\ UNCHANGED notModemVars
        \/ /\ \E resp \in ModemResponses : WaitCsRegistered_Poll(t, resp)
           /\ UNCHANGED notModemVars
        \/ (\E ok \in BOOLEAN : Transport_Return(t, ok)) /\ UNCHANGED notModemVars

InitSmsConc == InitModemAt({0}) /\ InitPureIdle /\ InitRegistry /\ InitSettings /\ InitHttp /\ InitWifi /\ InitFw /\ InitStatus

SpecSmsConc == InitSmsConc /\ [][NextSmsConc]_vars

(***************************************************************************)
(* SpecPure: selectProfile and isCsRegistered as functions of one input.   *)
(***************************************************************************)
SeqsUpTo(A, n) == UNION {[1..k -> A] : k \in 0..n}

IdAlphabet == {"0", "1", "2", "5", "6"}
LineAlphabet == {" ", ",", "0", "1", "5", "g", "\r"}

PureIds == SeqsUpTo(IdAlphabet, MaxIdLen) \cup {mccmncFromIMSI(i) : i \in IMSIs}

PureResponses ==
    {LineResp(l) : l \in SeqsUpTo(LineAlphabet, MaxLineLen)}
    \cup {[kind |-> r.kind, line |-> r.line] : r \in ModemResponses}

PureInputs ==
    {[fn |-> "selectProfile", id |-> id, resp |-> TimeoutResp] : id \in PureIds}
    \cup {[fn |-> "isCsRegistered", id |-> <<>>, resp |-> r] : r \in PureResponses}

InitPure ==
    /\ InitModemAt({0})
    /\ InitRegistry
    /\ InitSettings
    /\ InitHttp
    /\ InitWifi /\ InitFw /\ InitStatus
    /\ pin \in PureInputs
    /\ pout = [done |-> FALSE]

Pure_selectProfile ==
    /\ pin.fn = "selectProfile" /\ ~pout.done
    /\ pout' = [done |-> TRUE, prof |-> selectProfile(pin.id)]
    /\ UNCHANGED <<pin, notPureVars>>

Pure_isCsRegistered ==
    /\ pin.fn = "isCsRegistered" /\ ~pout.done
    /\ pout' = [done |-> TRUE, reg |-> isCsRegistered(pin.resp)]
    /\ UNCHANGED <<pin, notPureVars>>

NextPure == Pure_selectProfile \/ Pure_isCsRegistered

SpecPure == InitPure /\ [][NextPure]_vars

(***************************************************************************)
(* SpecIdentity: one initModemClean up to the operator selection, for      *)
(* every identity line of up to MaxImsiLen characters that readIMSI() may  *)
(* return, and the full-length identities of IMSIs.  pin.id is the line;   *)
(* pout keeps it with the identifier mccmncFromIMSI made of it.            *)
(***************************************************************************)
MaxImsiLen == 5

IdentityInputs ==
    {[fn |-> "initModemClean", id |-> id, resp |-> TimeoutResp] :
        id \in SeqsUpTo(IdAlphabet, MaxImsiLen) \cup IMSIs}

InitIdentity ==
    /\ InitModemAt({0})
    /\ InitRegistry
    /\ InitSettings
    /\ InitHttp
    /\ InitWifi /\ InitFw /\ InitStatus
    /\ pin \in IdentityInputs
    /\ pout = [done |-> FALSE, imsi |-> <<>>, mccmnc |-> <<>>]

\* initModemClean, lines 201-203, with what the three calls yield
ReadIdentity(t) ==
    /\ InitModemClean_Identity(t, pin.id)
    /\ pout' = [done |-> TRUE, imsi |-> pin.id, mccmnc |-> mccmncFromIMSI(pin.id)]

NextIdentity ==
    \E t \in Tasks :
        \/ /\ ncalls = 0
           /\ \E ok \in BOOLEAN : InitModemClean_Begin(t, ok)
           /\ UNCHANGED notModemVars
        \/ /\ ReadIdentity(t)
           /\ UNCHANGED <<pin, regVars, initModemVars, settingsVars, cbVars, httpVars, wifiVars, fwVars, statusVars>>
        \/ SetupRadio_Begin(t) /\ UNCHANGED notModemVars

SpecIdentity == InitIdentity /\ [][NextIdentity]_vars

(***************************************************************************)
(* ProbeRegistry: registerProbe, call, collectAll, collectWhere.           *)
(* A probe callback is named by a positive number; running it on a         *)
(* JsonObject leaves the object that callback writes.                      *)
(***************************************************************************)
\* lock_(), ProbeRegistry.hpp lines 136-140: xSemaphoreTake(mtx_, portMAX_DELAY)
\* returns once the mutex is free
\* (variant: the mutex is taken without waiting for it to be free)
lock_nowait(t) == mtx_' = t

lock_(t) == mtx_ = "free" /\ mtx_' = t

\* unlock_(), lines 142-146
\* (variant: the mutex is not given back)
unlock_kept(t) == UNCHANGED mtx_

unlock_(t) == mtx_' = "free"

\* registerProbe's capacity test, ProbeRegistry.cpp line 13
\* (variant: the test admits count_ = PROBE_MAX)
HasRoom_le(c) == c <= PROBE_MAX

HasRoom(c) == c < PROBE_MAX

\* entries_[0 .. n-1] in order, as a sequence
EntriesUpTo(n) == [k \in 1..n |-> entries_[k - 1]]

\* doc[name].to<JsonObject>() followed by fn(obj): the member under name is
\* made an empty object (appended when the key is new, in place otherwise)
\* and callback fn fills it
\* (variant: a member that exists is left as it is)
DocPut_keepFirst(d, name, fn) ==
    IF \E k \in 1..Len(d) : d[k].key = name
    THEN d
    ELSE Append(d, [key |-> name, val |-> fn])

DocPut(d, name, fn) ==
    IF \E k \in 1..Len(d) : d[k].key = name
    THEN [k \in 1..Len(d) |-> IF d[k].key = name THEN [key |-> name, val |-> fn] ELSE d[k]]
    ELSE Append(d, [key |-> name, val |-> fn])

\* one invocation of a probe callback, with whether the invoking task held
\* the mutex at that moment
Invocation(t, e) == [name |-> e.name, fn |-> e.fn, held |-> (mtx_ = t)]

\* a registry call begins
RegBeginCall(t, name) ==
    /\ rpc[t] = "idle"
    /\ rop' = [rop EXCEPT ![t] = name]
    /\ rres' = [rres EXCEPT ![t] = "none"]
    /\ atEntry' = [atEntry EXCEPT ![t] = [count |-> count_, entries |-> EntriesUpTo(count_)]]

\* registerProbe(name, fn) is called, up to lock_() (line 11)
RegisterProbe_Begin(t, name, fn) ==
    /\ RegBeginCall(t, "registerProbe")
    /\ rname' = [rname EXCEPT ![t] = name]
    /\ rfn' = [rfn EXCEPT ![t] = fn]
    /\ nreg' = nreg + 1
    /\ rcall' = [rcall EXCEPT ![t] = nreg + 1]
    /\ rpc' = [rpc EXCEPT ![t] = "reg_lock"]
    /\ UNCHANGED <<entries_, count_, mtx_, rpred, ri, snap, doc, invoked, nops>>

\* registerProbe, line 11: lock_() returns
RegisterProbe_Lock(t) ==
    /\ rpc[t] = "reg_lock"
    /\ lock_(t)
    /\ rpc' = [rpc EXCEPT ![t] = "reg_body"]
    /\ UNCHANGED <<entries_, count_, rop, rname, rfn, rpred, ri, snap, doc, invoked,
                   rres, rcall, nreg, nops, atEntry>>

\* registerProbe, lines 12-19, in two steps. At "reg_body" the test of line
\* 13: with room the call goes on to the store, without it unlock_() and
\* return false. At "reg_store" lines 15-19: entries_[count_++] = {name, fn},
\* unlock_(), return true
RegisterProbe_Body(t) ==
    /\ rpc[t] \in {"reg_body", "reg_store"}
    /\ IF rpc[t] = "reg_body"
       THEN IF HasRoom(count_)
            THEN /\ rpc' = [rpc EXCEPT ![t] = "reg_store"]
                 /\ UNCHANGED <<entries_, count_, mtx_, rres>>
            ELSE /\ rres' = [rres EXCEPT ![t] = Ret(FALSE)]
                 /\ unlock_(t)
                 /\ rpc' = [rpc EXCEPT ![t] = "idle"]
                 /\ UNCHANGED <<entries_, count_>>
       ELSE /\ entries_' = [entries_ EXCEPT ![count_] = [name |-> rname[t], fn |-> rfn[t]]]
            /\ count_' = count_ + 1
            /\ rres' = [rres EXCEPT ![t] = Ret(TRUE)]
            /\ unlock_(t)
            /\ rpc' = [rpc EXCEPT ![t] = "idle"]
    /\ UNCHANGED <<rop, rname, rfn, rpred, ri, snap, doc, invoked, rcall, nreg, nops,
                   atEntry>>

\* call(name, dst) is called with an empty dst, up to lock_() (line 29)
Call_Begin(t, name) ==
    /\ RegBeginCall(t, "call")
    /\ rname' = [rname EXCEPT ![t] = name]
    /\ doc' = [doc EXCEPT ![t] = <<>>]
    /\ invoked' = [invoked EXCEPT ![t] = <<>>]
    /\ nops' = nops + 1
    /\ rpc' = [rpc EXCEPT ![t] = "call_lock"]
    /\ UNCHANGED <<entries_, count_, mtx_, rfn, rpred, ri, snap, rcall, nreg>>

\* call, lines 29-30: lock_() returns, i = 0
Call_Lock(t) ==
    /\ rpc[t] = "call_lock"
    /\ lock_(t)
    /\ ri' = [ri EXCEPT ![t] = 0]
    /\ rpc' = [rpc EXCEPT ![t] = "call_scan"]
    /\ UNCHANGED <<entries_, count_, rop, rname, rfn, rpred, snap, doc, invoked,
                   rres, rcall, nreg, nops, atEntry>>

\* call, line 32: strcmp(entries_[i].name, name) == 0
\* (variant: every entry matches)
SameName_any(a, b) == TRUE

SameName(a, b) == a = b

\* call, lines 30-35 and 41-42: one turn of the search loop. A match copies
\* the callable and unlocks; the end of the loop unlocks and returns false
Call_Scan(t) ==
    /\ rpc[t] = "call_scan"
    /\ IF ri[t] < count_
       THEN IF SameName(entries_[ri[t]].name, rname[t])
            THEN /\ rfn' = [rfn EXCEPT ![t] = entries_[ri[t]].fn]
                 /\ unlock_(t)
                 /\ rpc' = [rpc EXCEPT ![t] = "call_invoke"]
                 /\ UNCHANGED <<ri, rres>>
            ELSE /\ ri' = [ri EXCEPT ![t] = @ + 1]
                 /\ UNCHANGED <<rfn, mtx_, rpc, rres>>
       ELSE /\ unlock_(t)
            /\ rres' = [rres EXCEPT ![t] = Ret(FALSE)]
            /\ rpc' = [rpc EXCEPT ![t] = "idle"]
            /\ UNCHANGED <<rfn, ri>>
    /\ UNCHANGED <<entries_, count_, rop, rname, rpred, snap, doc, invoked, rcall,
                   nreg, nops, atEntry>>

\* call, lines 36-38: dst[name].to<JsonObject>(), fn(obj), return true
Call_Invoke(t) ==
    /\ rpc[t] = "call_invoke"
    /\ doc' = [doc EXCEPT ![t] = DocPut(@, rname[t], rfn[t])]
    /\ invoked' = [invoked EXCEPT
                     ![t] = Append(@, Invocation(t, [name |-> rname[t], fn |-> rfn[t]]))]
    /\ rres' = [rres EXCEPT ![t] = Ret(TRUE)]
    /\ rpc' = [rpc EXCEPT ![t] = "idle"]
    /\ UNCHANGED <<entries_, count_, mtx_, rop, rname, rfn, rpred, ri, snap, rcall,
                   nreg, nops, atEntry>>

\* collectAll(doc) is called with an empty doc, up to lock_() (lines 54-56)
CollectAll_Begin(t) ==
    /\ RegBeginCall(t, "collectAll")
    /\ snap' = [snap EXCEPT ![t] = <<>>]
    /\ doc' = [doc EXCEPT ![t] = <<>>]
    /\ invoked' = [invoked EXCEPT ![t] = <<>>]
    /\ nops' = nops + 1
    /\ rpc' = [rpc EXCEPT ![t] = "all_lock"]
    /\ UNCHANGED <<entries_, count_, mtx_, rname, rfn, rpred, ri, rcall, nreg>>

\* collectAll, line 56: lock_() returns
CollectAll_Lock(t) ==
    /\ rpc[t] = "all_lock"
    /\ lock_(t)
    /\ rpc' = [rpc EXCEPT ![t] = "all_snap"]
    /\ UNCHANGED <<entries_, count_, rop, rname, rfn, rpred, ri, snap, doc, invoked,
                   rres, rcall, nreg, nops, atEntry>>

\* collectAll, lines 57-60: n = count_, the copy loop, unlock_()
CollectAll_Snapshot(t) ==
    /\ rpc[t] = "all_snap"
    /\ snap' = [snap EXCEPT ![t] = EntriesUpTo(count_)]
    /\ unlock_(t)
    /\ ri' = [ri EXCEPT ![t] = 0]
    /\ rpc' = [rpc EXCEPT ![t] = "all_invoke"]
    /\ UNCHANGED <<entries_, count_, rop, rname, rfn, rpred, doc, invoked, rres,
                   rcall, nreg, nops, atEntry>>

\* snap[i], as the second loop of collectAll reads it (lines 65-66)
\* (variant: every turn reads snap[0])
SnapAt_first(t, i) == snap[t][1]

SnapAt(t, i) == snap[t][i + 1]

\* collectAll, lines 63-68: one turn of the second loop, or its end and the
\* return
CollectAll_Invoke(t) ==
    /\ rpc[t] = "all_invoke"
    /\ IF ri[t] < Len(snap[t])
       THEN /\ doc' = [doc EXCEPT
                         ![t] = DocPut(@, SnapAt(t, ri[t]).name, SnapAt(t, ri[t]).fn)]
            /\ invoked' = [invoked EXCEPT
                             ![t] = Append(@, Invocation(t, SnapAt(t, ri[t])))]
            /\ ri' = [ri EXCEPT ![t] = @ + 1]
            /\ UNCHANGED <<rres, rpc>>
       ELSE /\ rres' = [rres EXCEPT ![t] = "void"]
            /\ rpc' = [rpc EXCEPT ![t] = "idle"]
            /\ UNCHANGED <<doc, invoked, ri>>
    /\ UNCHANGED <<entries_, count_, mtx_, rop, rname, rfn, rpred, snap, rcall,
                   nreg, nops, atEntry>>

\* collectWhere(doc, pred) is called with an empty doc, up to lock_()
\* (ProbeRegistry.hpp lines 103-106)
CollectWhere_Begin(t, pred) ==
    /\ RegBeginCall(t, "collectWhere")
    /\ rpred' = [rpred EXCEPT ![t] = pred]
    /\ snap' = [snap EXCEPT ![t] = <<>>]
    /\ doc' = [doc EXCEPT ![t] = <<>>]
    /\ invoked' = [invoked EXCEPT ![t] = <<>>]
    /\ nops' = nops + 1
    /\ rpc' = [rpc EXCEPT ![t] = "where_lock"]
    /\ UNCHANGED <<entries_, count_, mtx_, rname, rfn, ri, rcall, nreg>>

\* collectWhere, line 106: lock_() returns
CollectWhere_Lock(t) ==
    /\ rpc[t] = "where_lock"
    /\ lock_(t)
    /\ rpc' = [rpc EXCEPT ![t] = "where_snap"]
    /\ UNCHANGED <<entries_, count_, rop, rname, rfn, rpred, ri, snap, doc, invoked,
                   rres, rcall, nreg, nops, atEntry>>

\* the filter of collectWhere's first loop, lines 107-111
Accepted(e, pred) == e.name \in pred

\* collectWhere, lines 107-112: the entries pred accepts are copied in order,
\* unlock_()
CollectWhere_Snapshot(t) ==
    /\ rpc[t] = "where_snap"
    /\ snap' = [snap EXCEPT
                  ![t] = SelectSeq(EntriesUpTo(count_), LAMBDA e : Accepted(e, rpred[t]))]
    /\ unlock_(t)
    /\ ri' = [ri EXCEPT ![t] = 0]
    /\ rpc' = [rpc EXCEPT ![t] = "where_invoke"]
    /\ UNCHANGED <<entries_, count_, rop, rname, rfn, rpred, doc, invoked, rres,
                   rcall, nreg, nops, atEntry>>

\* collectWhere, lines 114-118: one turn of the second loop (the callback is
\* handed doc[name]), or its end and the return
CollectWhere_Invoke(t) ==
    /\ rpc[t] = "where_invoke"
    /\ IF ri[t] < Len(snap[t])
       THEN /\ doc' = [doc EXCEPT
                         ![t] = DocPut(@, snap[t][ri[t] + 1].name, snap[t][ri[t] + 1].fn)]
            /\ invoked' = [invoked EXCEPT
                             ![t] = Append(@, Invocation(t, snap[t][ri[t] + 1]))]
            /\ ri' = [ri EXCEPT ![t] = @ + 1]
            /\ UNCHANGED <<rres, rpc>>
       ELSE /\ rres' = [rres EXCEPT ![t] = "void"]
            /\ rpc' = [rpc EXCEPT ![t] = "idle"]
            /\ UNCHANGED <<doc, invoked, ri>>
    /\ UNCHANGED <<entries_, count_, mtx_, rop, rname, rfn, rpred, snap, rcall,
                   nreg, nops, atEntry>>

\* SpecRegSeq: one task registers probes under distinct names, the k-th under
\* the decimal numeral of k, until the registry has turned MaxOverflow of them
\* away; between registrations it may collect all probes, MaxCollects times
MaxOverflow == 1
MaxCollects == 1

NextRegSeq ==
    \E t \in {"t1"} :
        \/ /\ nreg < PROBE_MAX + MaxOverflow
           /\ RegisterProbe_Begin(t, DecStr(nreg + 1), nreg + 1)
           /\ UNCHANGED notRegVars
        \/ RegisterProbe_Lock(t) /\ UNCHANGED notRegVars
        \/ RegisterProbe_Body(t) /\ UNCHANGED notRegVars
        \/ /\ nops < MaxCollects
           /\ CollectAll_Begin(t)
           /\ UNCHANGED notRegVars
        \/ CollectAll_Lock(t) /\ UNCHANGED notRegVars
        \/ CollectAll_Snapshot(t) /\ UNCHANGED notRegVars
        \/ CollectAll_Invoke(t) /\ UNCHANGED notRegVars

InitRegSeq == InitModemAt({0}) /\ InitPureIdle /\ InitRegistry /\ InitSettings /\ InitHttp /\ InitWifi /\ InitFw /\ InitStatus

SpecRegSeq == InitRegSeq /\ [][NextRegSeq]_vars

\* SpecRegConc: two tasks use the registry at once; at most MaxRegCalls
\* registrations and MaxRegOps calls of call / collectAll / collectWhere
MaxRegCalls == 2
MaxRegOps == 2
RegNames == {<<"a">>, <<"b">>}
WherePreds == {{<<"a">>}, RegNames}

NextRegConc ==
    \E t \in Tasks :
        \/ /\ nreg < MaxRegCalls
           /\ \E name \in RegNames : RegisterProbe_Begin(t, name, nreg + 1)
           /\ UNCHANGED notRegVars
        \/ RegisterProbe_Lock(t) /\ UNCHANGED notRegVars
        \/ RegisterProbe_Body(t) /\ UNCHANGED notRegVars
        \/ /\ nops < MaxRegOps
           /\ \E name \in RegNames : Call_Begin(t, name)
           /\ UNCHANGED notRegVars
        \/ Call_Lock(t) /\ UNCHANGED notRegVars
        \/ Call_Scan(t) /\ UNCHANGED notRegVars
        \/ Call_Invoke(t) /\ UNCHANGED notRegVars
        \/ /\ nops < MaxRegOps
           /\ CollectAll_Begin(t)
           /\ UNCHANGED notRegVars
        \/ CollectAll_Lock(t) /\ UNCHANGED notRegVars
        \/ CollectAll_Snapshot(t) /\ UNCHANGED notRegVars
        \/ CollectAll_Invoke(t) /\ UNCHANGED notRegVars
        \/ /\ nops < MaxRegOps
           /\ \E pred \in WherePreds : CollectWhere_Begin(t, pred)
           /\ UNCHANGED notRegVars
        \/ CollectWhere_Lock(t) /\ UNCHANGED notRegVars
        \/ CollectWhere_Snapshot(t) /\ UNCHANGED notRegVars
        \/ CollectWhere_Invoke(t) /\ UNCHANGED notRegVars

InitRegConc == InitModemAt({0}) /\ InitPureIdle /\ InitRegistry /\ InitSettings /\ InitHttp /\ InitWifi /\ InitFw /\ InitStatus

SpecRegConc == InitRegConc /\ [][NextRegConc]_vars

\* SpecRegFull: two tasks use a registry that setup() has filled up to one
\* free slot (the k-th probe under the decimal numeral of k): at most
\* MaxFullRegs further registrations and MaxFullOps calls of call /
\* collectAll / collectWhere
MaxFullRegs == 2
MaxFullOps == 1
FullCallNames == RegNames \cup {DecStr(1), DecStr(PROBE_MAX)}
FullPreds == {{<<"a">>, DecStr(2)}}

InitRegistryNearFull ==
    /\ entries_ = [k \in 0..(PROBE_MAX - 1) |->
                     IF k < PROBE_MAX - 1 THEN [name |-> DecStr(k + 1), fn |-> k + 1]
                     ELSE EmptyEntry]
    /\ count_ = PROBE_MAX - 1
    /\ mtx_ = "free"
    /\ rpc = [t \in Frames |-> "idle"]
    /\ rop = [t \in Frames |-> "none"]
    /\ rname = [t \in Frames |-> <<>>]
    /\ rfn = [t \in Frames |-> 0]
    /\ rpred = [t \in Frames |-> {}]
    /\ ri = [t \in Frames |-> 0]
    /\ snap = [t \in Frames |-> <<>>]
    /\ doc = [t \in Frames |-> <<>>]
    /\ invoked = [t \in Frames |-> <<>>]
    /\ rres = [t \in Frames |-> "none"]
    /\ rcall = [t \in Frames |-> 0]
    /\ nreg = PROBE_MAX - 1
    /\ nops = 0
    /\ atEntry = [t \in Frames |-> [count |-> 0, entries |-> <<>>]]
    /\ cbState = [t \in Tasks |-> "no"]

NextRegFull ==
    \E t \in Tasks :
        \/ /\ nreg < PROBE_MAX - 1 + MaxFullRegs
           /\ \E name \in RegNames : RegisterProbe_Begin(t, name, nreg + 1)
           /\ UNCHANGED notRegVars
        \/ RegisterProbe_Lock(t) /\ UNCHANGED notRegVars
        \/ RegisterProbe_Body(t) /\ UNCHANGED notRegVars
        \/ /\ nops < MaxFullOps
           /\ \E name \in FullCallNames : Call_Begin(t, name)
           /\ UNCHANGED notRegVars
        \/ Call_Lock(t) /\ UNCHANGED notRegVars
        \/ Call_Scan(t) /\ UNCHANGED notRegVars
        \/ Call_Invoke(t) /\ UNCHANGED notRegVars
        \/ /\ nops < MaxFullOps
           /\ CollectAll_Begin(t)
           /\ UNCHANGED notRegVars
        \/ CollectAll_Lock(t) /\ UNCHANGED notRegVars
        \/ CollectAll_Snapshot(t) /\ UNCHANGED notRegVars
        \/ CollectAll_Invoke(t) /\ UNCHANGED notRegVars
        \/ /\ nops < MaxFullOps
           /\ \E pred \in FullPreds : CollectWhere_Begin(t, pred)
           /\ UNCHANGED notRegVars
        \/ CollectWhere_Lock(t) /\ UNCHANGED notRegVars
        \/ CollectWhere_Snapshot(t) /\ UNCHANGED notRegVars
        \/ CollectWhere_Invoke(t) /\ UNCHANGED notRegVars

InitRegFull == InitModemAt({0}) /\ InitPureIdle /\ InitRegistryNearFull /\ InitSettings /\ InitHttp /\ InitWifi /\ InitFw /\ InitStatus

SpecRegFull == InitRegFull /\ [][NextRegFull]_vars

(***************************************************************************)
(* HTTPServer::handleSend, the handler of POST /send.                      *)
(***************************************************************************)

\* looksLikePhone(s), HTTPServer.cpp lines 242-253
looksLikePhone(s) ==
    IF Len(s) < MinPhoneLen \/ Len(s) > MaxPhoneLen
    THEN FALSE
    ELSE \A i \in 1..Len(s) : s[i] = "+" \/ s[i] \in Digits

\* the message-length test of handleSend, line 173
\* (variant: the empty message passes)
MessageLengthOk_empty(n) == ~(n > MaxMessageLen)

MessageLengthOk(n) == ~(n < MinMessageLen \/ n > MaxMessageLen)

\* server->send(code, ...): one more response goes out
Send(code) == responses' = Append(responses, code)

\* handleSend up to the call of checkModemRegistered (lines 141-178): the LED
\* goes on, the CORS headers are queued, and the request is refused or found
\* valid. req.body says what arg("plain") holds: nothing, text that
\* deserializeJson rejects, or a JSON document whose "phone" and "message"
\* members (empty when absent) are req.phone and a text of req.msgLen
\* characters
HandleSend_Validate(method, req) ==
    /\ hpc = "idle"
    /\ hreq' = req
    /\ nreq' = nreq + 1
    /\ led' = "HIGH"
    /\ capCalls' = <<>>
    /\ IF method # "POST"
       THEN responses' = <<405>> /\ hpc' = "idle"
       ELSE IF req.body = "empty"
       THEN responses' = <<400>> /\ hpc' = "idle"
       ELSE IF req.body # "json"
       THEN responses' = <<400>> /\ hpc' = "idle"
       ELSE IF ~looksLikePhone(req.phone)
       THEN responses' = <<400>> /\ hpc' = "idle"
       ELSE IF ~MessageLengthOk(req.msgLen)
       THEN responses' = <<400>> /\ hpc' = "idle"
       ELSE responses' = <<>> /\ hpc' = "hs_check"

\* handleSend, lines 179-183: checkModemRegistered() returns reg
HandleSend_Check(reg) ==
    /\ hpc = "hs_check"
    /\ capCalls' = Append(capCalls, [cap |-> "checkModemRegistered", ret |-> reg])
    /\ IF ~reg
       THEN Send(503) /\ hpc' = "idle"
       ELSE UNCHANGED responses /\ hpc' = "hs_send"
    /\ UNCHANGED <<hreq, led, nreq>>

\* handleSend, lines 185-194: sendSMS(phone, message) returns ok, the answer
\* goes out and the LED goes off
HandleSend_Send(ok) ==
    /\ hpc = "hs_send"
    /\ capCalls' = Append(capCalls, [cap |-> "sendSMS", ret |-> ok])
    /\ IF ok THEN Send(200) ELSE Send(500)
    /\ led' = "LOW"
    /\ hpc' = "idle"
    /\ UNCHANGED <<hreq, nreq>>

\* SpecHttp: MaxRequests requests to POST /send, one after the other (the
\* route is registered for HTTP_POST only, HTTPServer.cpp line 21), with
\* bodies of each kind, phone values around both length limits and with and
\* without foreign characters, and message lengths around both limits
MaxRequests == 2
Rep(c, n) == [k \in 1..n |-> c]
Phones ==
    { <<>>,
      <<"+", "4", "0", "7", "1", "2">>,
      <<"+", "4", "0", "7", "1", "2", "3">>,
      <<"0", "7", "1", "2", "3", "4", "5">>,
      <<"4", "+", "0", "7", "1", "2", "3">>,
      <<"+", "4", "0", "7", "a", "2", "3">>,
      Rep("7", MaxPhoneLen),
      Rep("7", MaxPhoneLen + 1) }
MessageLens == {0, MinMessageLen, MaxSmsLen, MaxMessageLen, MaxMessageLen + 1}
Requests ==
    {[body |-> "empty", phone |-> <<>>, msgLen |-> 0],
     [body |-> "garbage", phone |-> <<>>, msgLen |-> 0]}
    \cup [body : {"json"}, phone : Phones, msgLen : MessageLens]
DispatchedMethods == {"POST"}

NextHttp ==
    \/ /\ nreq < MaxRequests
       /\ \E method \in DispatchedMethods : \E req \in Requests :
              HandleSend_Validate(method, req)
       /\ UNCHANGED notHttpVars
    \/ \E reg \in BOOLEAN : HandleSend_Check(reg) /\ UNCHANGED notHttpVars
    \/ \E ok \in BOOLEAN : HandleSend_Send(ok) /\ UNCHANGED notHttpVars

InitHttpSpec == InitModemAt({0}) /\ InitPureIdle /\ InitRegistry /\ InitSettings /\ InitHttp /\ InitWifi /\ InitFw /\ InitStatus

SpecHttp == InitHttpSpec /\ [][NextHttp]_vars

(***************************************************************************)
(* WifiConnection::connect, called by setup() on the loop task ("t1") and  *)
(* by the BLE write callback on the BLE host task ("t2").                  *)
(* isConnectionTrying is a plain bool: its test (line 173) and its set     *)
(* (line 178) are separate steps of a task.                                *)
(***************************************************************************)
\* int maxRetries = 40
MaxRetries == 40

\* a call is between its guard and its return
PastGuard(t) == wpc[t] \in {"set", "loop", "end"}

\* the two values connect() returns
Refused == [isConnected |-> FALSE, ip |-> "0.0.0.0"]
ConnectedAt == [isConnected |-> TRUE, ip |-> "localIP"]

\* connect(), lines 173-177: the guard
Connect_Guard(t) ==
    /\ wpc[t] = "idle"
    /\ wn' = [wn EXCEPT ![t] = @ + 1]
    /\ sawTrying' = [sawTrying EXCEPT ![t] = \E u \in Tasks \ {t} : PastGuard(u)]
    /\ IF isConnectionTrying
       THEN /\ wres' = [wres EXCEPT ![t] = Refused]
            /\ UNCHANGED wpc
       ELSE /\ wpc' = [wpc EXCEPT ![t] = "set"]
            /\ wres' = [wres EXCEPT ![t] = NoConnect]
    /\ UNCHANGED <<wi, isConnectionTrying, wifiStatus>>

\* connect(), lines 178-184: the flag is raised, WiFi.begin(...), i = 0
Connect_Begin(t) ==
    /\ wpc[t] = "set"
    /\ isConnectionTrying' = TRUE
    /\ wi' = [wi EXCEPT ![t] = 0]
    /\ wpc' = [wpc EXCEPT ![t] = "loop"]
    /\ UNCHANGED <<wres, wifiStatus, wn, sawTrying>>

\* connect(), lines 185-190: the loop test with what WiFi.status() says, and
\* one turn (delay(500), i++) when it holds
Connect_Loop(t, connected) ==
    /\ wpc[t] = "loop"
    /\ IF ~connected /\ wi[t] < MaxRetries
       THEN wi' = [wi EXCEPT ![t] = @ + 1] /\ UNCHANGED wpc
       ELSE wpc' = [wpc EXCEPT ![t] = "end"] /\ UNCHANGED wi
    /\ UNCHANGED <<wres, isConnectionTrying, wifiStatus, wn, sawTrying>>

\* connect(), lines 191-200: the second WiFi.status(), the flag is lowered,
\* the result
Connect_End(t, connected) ==
    /\ wpc[t] = "end"
    /\ isConnectionTrying' = FALSE
    /\ IF ~connected /\ wi[t] = MaxRetries
       THEN /\ wres' = [wres EXCEPT ![t] = Refused]
            /\ UNCHANGED wifiStatus
       ELSE /\ wifiStatus' = ConnectedAt
            /\ wres' = [wres EXCEPT ![t] = ConnectedAt]
    /\ wpc' = [wpc EXCEPT ![t] = "idle"]
    /\ UNCHANGED <<wi, wn, sawTrying>>

\* SpecWifi: setup() calls connect() once (main.cpp line 473) after
\* bluetoothSetup() (line 464) has started the BLE task, whose write callback
\* calls it up to MaxBleConnects times (BTLe.cpp line 234)
MaxBleConnects == 2
ConnectsOf(t) == IF t = "t1" THEN 1 ELSE MaxBleConnects

NextWifi ==
    \E t \in Tasks :
        \/ wn[t] < ConnectsOf(t) /\ Connect_Guard(t) /\ UNCHANGED notWifiVars
        \/ Connect_Begin(t) /\ UNCHANGED notWifiVars
        \/ (\E connected \in BOOLEAN : Connect_Loop(t, connected)) /\ UNCHANGED notWifiVars
        \/ (\E connected \in BOOLEAN : Connect_End(t, connected)) /\ UNCHANGED notWifiVars

InitWifiSpec == InitModemAt({0}) /\ InitPureIdle /\ InitRegistry /\ InitSettings /\ InitHttp /\ InitWifi /\ InitFw /\ InitStatus

SpecWifi == InitWifiSpec /\ [][NextWifi]_vars

(***************************************************************************)
(* Probe callbacks that take time: fn(obj) is entered, may use the         *)
(* registry itself (a nested call of the same task), and returns or        *)
(* never does.                                                             *)
(***************************************************************************)

\* fn(obj) is due: ProbeRegistry.cpp line 37 (call) or line 67 (collectAll)
CallbackDue(t) ==
    \/ rpc[t] = "call_invoke"
    \/ rpc[t] = "all_invoke" /\ ri[t] < Len(snap[t])

\* the callback is entered; the registry is as the caller left it
Probe_Enter(t) ==
    /\ CallbackDue(t)
    /\ cbState[t] = "no"
    /\ cbState' = [cbState EXCEPT ![t] = "running"]
    /\ UNCHANGED regVars

\* the callback returns, once any registry call it made has returned; the
\* caller goes on as in Call_Invoke / CollectAll_Invoke
Probe_Return(t) ==
    /\ cbState[t] = "running"
    /\ rpc[NestedOf(t)] = "idle"
    /\ Call_Invoke(t) \/ CollectAll_Invoke(t)
    /\ cbState' = [cbState EXCEPT ![t] = "no"]

\* the callback never returns
Probe_Hang(t) ==
    /\ cbState[t] = "running"
    /\ rpc[NestedOf(t)] = "idle"
    /\ cbState' = [cbState EXCEPT ![t] = "hung"]
    /\ UNCHANGED regVars

\* collectAll's second loop has run out: line 68, the return
CollectAll_End(t) ==
    /\ rpc[t] = "all_invoke"
    /\ ri[t] >= Len(snap[t])
    /\ CollectAll_Invoke(t)

\* SpecRegStall: two tasks use registerProbe, call and collectAll on one name;
\* each callback a task invokes may register a probe, call or collect from
\* inside (MaxStallRegs registrations and MaxStallOps other calls in all), and
\* may hang. Every step that is not the start of a call and not a hang is
\* taken if it stays possible
MaxStallRegs == 2
MaxStallOps == 2
StallNames == {<<"a">>}

\* the steps of activation f that need no outside decision
RegRuns(f) ==
    \/ RegisterProbe_Lock(f)
    \/ RegisterProbe_Body(f)
    \/ Call_Lock(f)
    \/ Call_Scan(f)
    \/ CollectAll_Lock(f)
    \/ CollectAll_Snapshot(f)

\* a registry call begins in activation f
RegStarts(f) ==
    \/ /\ nreg < MaxStallRegs
       /\ \E name \in StallNames : RegisterProbe_Begin(f, name, nreg + 1)
    \/ /\ nops < MaxStallOps
       /\ \E name \in StallNames : Call_Begin(f, name)
    \/ /\ nops < MaxStallOps
       /\ CollectAll_Begin(f)

NextRegStall ==
    \E t \in Tasks :
        \/ cbState[t] = "no" /\ RegStarts(t) /\ UNCHANGED <<cbVars, notRegOrCbVars>>
        \/ RegRuns(t) /\ UNCHANGED <<cbVars, notRegOrCbVars>>
        \/ Probe_Enter(t) /\ UNCHANGED notRegOrCbVars
        \/ Probe_Return(t) /\ UNCHANGED notRegOrCbVars
        \/ Probe_Hang(t) /\ UNCHANGED notRegOrCbVars
        \/ CollectAll_End(t) /\ UNCHANGED <<cbVars, notRegOrCbVars>>
        \/ /\ cbState[t] = "running"
           /\ RegStarts(NestedOf(t))
           /\ UNCHANGED <<cbVars, notRegOrCbVars>>
        \/ RegRuns(NestedOf(t)) /\ UNCHANGED <<cbVars, notRegOrCbVars>>
        \/ Call_Invoke(NestedOf(t)) /\ UNCHANGED <<cbVars, notRegOrCbVars>>
        \/ CollectAll_Invoke(NestedOf(t)) /\ UNCHANGED <<cbVars, notRegOrCbVars>>

\* what the scheduler and the callbacks that do return guarantee
RegStallFair ==
    \A t \in Tasks :
        /\ WF_vars(RegRuns(t) /\ UNCHANGED <<cbVars, notRegOrCbVars>>)
        /\ WF_vars(Probe_Enter(t) /\ UNCHANGED notRegOrCbVars)
        /\ WF_vars(Probe_Return(t) /\ UNCHANGED notRegOrCbVars)
        /\ WF_vars(CollectAll_End(t) /\ UNCHANGED <<cbVars, notRegOrCbVars>>)
        /\ WF_vars(RegRuns(NestedOf(t)) /\ UNCHANGED <<cbVars, notRegOrCbVars>>)
        /\ WF_vars(Call_Invoke(NestedOf(t)) /\ UNCHANGED <<cbVars, notRegOrCbVars>>)
        /\ WF_vars(CollectAll_Invoke(NestedOf(t)) /\ UNCHANGED <<cbVars, notRegOrCbVars>>)

InitRegStall == InitModemAt({0}) /\ InitPureIdle /\ InitRegistry /\ InitSettings /\ InitHttp /\ InitWifi /\ InitFw /\ InitStatus

SpecRegStall == InitRegStall /\ [][NextRegStall]_vars /\ RegStallFair

(***************************************************************************)
(* SpecSettings: the setters of GSettings and toJson, in any order.        *)
(***************************************************************************)
MaxPwLen == 5
PwAlphabet == {"a", "*"}
SeqsOver(A, n) == UNION {[1..k -> A] : k \in 0..n}
Passwords == SeqsOver(PwAlphabet, MaxPwLen)
DeviceNames == {DefaultDeviceName, <<"d", "e", "v">>}
Ssids == {<<>>, <<"n", "e", "t">>}

NextSettings ==
    \/ (\E name \in DeviceNames : GSettings_setDeviceName(name)) /\ UNCHANGED notSettingsVars
    \/ (\E name \in Ssids : GSettings_setSsid(name)) /\ UNCHANGED notSettingsVars
    \/ (\E pw \in Passwords : GSettings_setPassword(pw)) /\ UNCHANGED notSettingsVars
    \/ GSettings_toJson /\ UNCHANGED notSettingsVars

InitSettingsSpec == InitModemAt({0}) /\ InitPureIdle /\ InitRegistry /\ InitSettings /\ InitHttp /\ InitWifi /\ InitFw /\ InitStatus

SpecSettings == InitSettingsSpec /\ [][NextSettings]_vars

(***************************************************************************)
(* main.cpp: setup() and loop() on the loop task, and the device restart   *)
(* the BLE write callback can ask for from the BLE host task.              *)
(* mpc names the statement the loop task is at; "in_initModem" and         *)
(* "in_handle" say it is inside initModem() or inside the handler that     *)
(* httpServer->handleClient() dispatched.                                  *)
(***************************************************************************)
\* the statements of setup(), lines 463-485, in order
\* (variant: the HTTP server is constructed before the modem is brought up)
SetupOrder_httpFirst == <<"load", "ble", "http", "initModem", "wifi">>

SetupOrder == <<"load", "ble", "initModem", "wifi", "http">>

\* the statement after statement st of setup(); after the last one loop()
\* begins
AfterSetup(st) ==
    LET k == CHOOSE j \in 1..Len(SetupOrder) : SetupOrder[j] = st
    IN  IF k < Len(SetupOrder) THEN SetupOrder[k + 1] ELSE "loop_ble"

\* setup(), lines 463 (settings.load), 465 (bluetoothSetup) and 473
\* (wifiConnection.connect)
Setup_Step ==
    /\ mpc \in {"load", "ble", "wifi"}
    /\ mpc' = AfterSetup(mpc)
    /\ UNCHANGED <<httpServer, nboot, bleReq, bleLog, charValue, nble>>

\* setup(), line 471: initModem() is called
Setup_InitModem_Call ==
    /\ mpc = "initModem"
    /\ mpc' = "in_initModem"
    /\ UNCHANGED <<httpServer, nboot, bleReq, bleLog, charValue, nble>>

\* initModem(), lines 277-370: it returns
Setup_InitModem_Return ==
    /\ mpc = "in_initModem"
    /\ mpc' = AfterSetup("initModem")
    /\ UNCHANGED <<httpServer, nboot, bleReq, bleLog, charValue, nble>>

\* setup(), line 485: httpServer = new HTTPServer(...)
Setup_Http ==
    /\ mpc = "http"
    /\ httpServer' = TRUE
    /\ mpc' = AfterSetup("http")
    /\ UNCHANGED <<nboot, bleReq, bleLog, charValue, nble>>

\* loop(), line 508: bluetoothChangeStatus()
Loop_Ble ==
    /\ mpc = "loop_ble"
    /\ mpc' = "loop_http"
    /\ UNCHANGED <<httpServer, nboot, bleReq, bleLog, charValue, nble>>

\* where the loop task is once a step of the handler has been taken
AfterHandlerStep(h) == IF h = "idle" THEN "loop_delay" ELSE "in_handle"

\* loop(), line 509: httpServer->handleClient() with no request to serve
Loop_HandleClient_None ==
    /\ mpc = "loop_http" /\ httpServer
    /\ mpc' = "loop_delay"
    /\ UNCHANGED <<httpServer, nboot, bleReq, bleLog, charValue, nble>>

\* loop(), line 509: httpServer->handleClient() dispatches a request to
\* handleSend
Loop_HandleClient_Send(method, req) ==
    /\ mpc = "loop_http" /\ httpServer
    /\ HandleSend_Validate(method, req)
    /\ mpc' = AfterHandlerStep(hpc')
    /\ UNCHANGED <<httpServer, nboot, bleReq, bleLog, charValue, nble>>

\* the handler goes on: checkModemRegistered(), then sendSMS()
Loop_Handler_Check(reg) ==
    /\ mpc = "in_handle"
    /\ HandleSend_Check(reg)
    /\ mpc' = AfterHandlerStep(hpc')
    /\ UNCHANGED <<httpServer, nboot, bleReq, bleLog, charValue, nble>>

Loop_Handler_Send(ok) ==
    /\ mpc = "in_handle"
    /\ HandleSend_Send(ok)
    /\ mpc' = AfterHandlerStep(hpc')
    /\ UNCHANGED <<httpServer, nboot, bleReq, bleLog, charValue, nble>>

\* loop(), line 510: delay(2)
Loop_Delay ==
    /\ mpc = "loop_delay"
    /\ mpc' = "loop_ble"
    /\ UNCHANGED <<httpServer, nboot, bleReq, bleLog, charValue, nble>>

\* BTLe.cpp line 266, on the BLE host task: ESP.restart(). The device starts
\* again: whatever the loop task was doing ends and setup() runs from its top
Device_Restart ==
    /\ mpc # "load"
    /\ mpc' = "load"
    /\ httpServer' = FALSE
    /\ nboot' = nboot + 1
    /\ hpc' = "idle" /\ hreq' = NoRequest /\ responses' = <<>> /\ capCalls' = <<>>
    /\ led' = "LOW"
    /\ UNCHANGED <<nreq, bleReq, bleLog, charValue, nble>>

\* SpecMain: the firmware from reset, with up to MaxRequests requests to
\* POST /send and up to MaxRestarts restarts asked for over BLE
MaxRestarts == 1
MainRequests ==
    {[body |-> "empty", phone |-> <<>>, msgLen |-> 0],
     [body |-> "garbage", phone |-> <<>>, msgLen |-> 0]}
    \cup [body : {"json"},
          phone : {<<"+", "4", "0", "7", "1", "2">>, <<"+", "4", "0", "7", "1", "2", "3">>},
          msgLen : {0, MinMessageLen, MaxSmsLen}]

NextMain ==
    \/ Setup_Step /\ UNCHANGED <<notFwOrHttpVars, httpVars>>
    \/ Setup_InitModem_Call /\ UNCHANGED <<notFwOrHttpVars, httpVars>>
    \/ Setup_InitModem_Return /\ UNCHANGED <<notFwOrHttpVars, httpVars>>
    \/ Setup_Http /\ UNCHANGED <<notFwOrHttpVars, httpVars>>
    \/ Loop_Ble /\ UNCHANGED <<notFwOrHttpVars, httpVars>>
    \/ Loop_HandleClient_None /\ UNCHANGED <<notFwOrHttpVars, httpVars>>
    \/ /\ nreq < MaxRequests
       /\ \E method \in DispatchedMethods : \E req \in MainRequests :
              Loop_HandleClient_Send(method, req)
       /\ UNCHANGED notFwOrHttpVars
    \/ (\E reg \in BOOLEAN : Loop_Handler_Check(reg)) /\ UNCHANGED notFwOrHttpVars
    \/ (\E ok \in BOOLEAN : Loop_Handler_Send(ok)) /\ UNCHANGED notFwOrHttpVars
    \/ Loop_Delay /\ UNCHANGED <<notFwOrHttpVars, httpVars>>
    \/ /\ nboot < MaxRestarts
       /\ Device_Restart
       /\ UNCHANGED notFwOrHttpVars

InitMain == InitModemAt({0}) /\ InitPureIdle /\ InitRegistry /\ InitSettings /\ InitHttp /\ InitWifi /\ InitFw /\ InitStatus

SpecMain == InitMain /\ [][NextMain]_vars

(***************************************************************************)
(* BTLe.cpp: CharacteristicCallbacks::onRead and onWrite, on the BLE host   *)
(* task. bleLog lists what the callback did: settings setters, save,        *)
(* WiFi disconnect and connect, status updates, notifications, restart,     *)
(* the status snapshot and the characteristic's new value.                  *)
(***************************************************************************)
\* the test at the head of both callbacks, lines 140 and 184
\* (variant: every connection is let in)
Admitted_always(encrypted) == TRUE

Admitted(encrypted) == encrypted

\* onWrite, line 212: doc["ssid"] and doc["password"] are both strings
\* (variant: a string ssid is enough)
HasCredentials_ssidOnly(pl) == pl.ssid.kind = "string"

HasCredentials(pl) == pl.ssid.kind = "string" /\ pl.password.kind = "string"

\* onWrite, line 206: doc["deviceName"] is a string
HasDeviceName(pl) == pl.deviceName.kind = "string"

\* onWrite, line 263: doc["restart"] is a bool and true
WantsRestart(pl) == pl.restart = "true"

\* a sequence that is s when b holds and empty otherwise
When(b, s) == IF b THEN s ELSE <<>>

\* onWrite, lines 224-253: the WiFi part of the callback
WriteWifiSteps(req) ==
    When(req.wasConnected, <<"disconnect">>)
        \o <<"connect", "setWifiConnected">>
        \o When(req.connectOk, <<"setIpAddress">>)
        \o When(req.hasNotify, <<"notify">>)

\* onWrite, lines 206-267, for a parsed document
WriteSteps(req) ==
    LET pl == req.payload
    IN  When(HasDeviceName(pl), <<"setDeviceName">>)
            \o When(HasCredentials(pl), <<"setSsid", "setPassword">>)
            \o When(HasDeviceName(pl) \/ HasCredentials(pl), <<"save">>)
            \o When(HasCredentials(pl), WriteWifiSteps(req))
            \o When(WantsRestart(pl), <<"restart">>)

\* the document of a write got as far as line 203
Parsed(req) == Admitted(req.encrypted) /\ ~req.payload.empty /\ req.payload.valid

\* onRead, lines 138-152
Ble_OnRead(encrypted) ==
    /\ bleReq' = [NoBleReq EXCEPT !.kind = "read", !.encrypted = encrypted]
    /\ nble' = nble + 1
    /\ IF Admitted(encrypted)
       THEN /\ bleLog' = <<"collectAllAsJson", "setValue">>
            /\ charValue' = "snapshot"
       ELSE /\ bleLog' = <<>>
            /\ UNCHANGED charValue
    /\ UNCHANGED <<mpc, httpServer, nboot>>

\* onWrite, lines 182-269; a restart (line 266) starts the device again
Ble_OnWrite(req) ==
    /\ req.kind = "write"
    /\ bleReq' = req
    /\ nble' = nble + 1
    /\ bleLog' = When(Parsed(req), WriteSteps(req))
    /\ deviceName' = IF Parsed(req) /\ HasDeviceName(req.payload)
                      THEN req.payload.deviceName.val ELSE deviceName
    /\ ssid' = IF Parsed(req) /\ HasCredentials(req.payload)
                THEN req.payload.ssid.val ELSE ssid
    /\ password' = IF Parsed(req) /\ HasCredentials(req.payload)
                    THEN req.payload.password.val ELSE password
    /\ IF Parsed(req) /\ WantsRestart(req.payload)
       THEN mpc' = "load" /\ httpServer' = FALSE /\ nboot' = nboot + 1
       ELSE UNCHANGED <<mpc, httpServer, nboot>>
    /\ UNCHANGED <<charValue, gsRoot, rootPw>>

\* SpecBle: up to MaxBleOps reads and writes of the characteristic, over
\* encrypted and unencrypted links, with empty, unparsable and parsed
\* payloads whose members are absent, strings or of another type
MaxBleOps == 2
Members(v) == {Absent, [kind |-> "string", val |-> v], [kind |-> "other", val |-> <<>>]}
Payloads ==
    {NoPayload, [NoPayload EXCEPT !.empty = FALSE]}
    \cup [empty : {FALSE}, valid : {TRUE}, deviceName : Members(<<"n">>),
          ssid : Members(<<"s">>), password : Members(<<"p">>),
          restart : {"absent", "true", "false", "other"}]
Writes ==
    [kind : {"write"}, encrypted : BOOLEAN, payload : Payloads,
     wasConnected : BOOLEAN, connectOk : BOOLEAN, hasNotify : BOOLEAN]

NextBle ==
    \/ /\ nble < MaxBleOps
       /\ \E encrypted \in BOOLEAN : Ble_OnRead(encrypted)
       /\ UNCHANGED <<notFwOrHttpVars, httpVars>>
    \/ /\ nble < MaxBleOps
       /\ \E req \in Writes : Ble_OnWrite(req)
       /\ UNCHANGED <<modemVars, pureVars, regVars, initModemVars, cbVars, httpVars,
                      wifiVars, statusVars>>

InitBle == InitModemAt({0}) /\ InitPureIdle /\ InitRegistry /\ InitSettings /\ InitHttp /\ InitWifi /\ InitFw /\ InitStatus

SpecBle == InitBle /\ [][NextBle]_vars

(***************************************************************************)
(* WifiStatus::getIpAddress and WifiStatus::toJson, the 'wifi' probe        *)
(* registered by the constructor (WifiConnection.cpp lines 16-20).         *)
(* connection.ip is wifiStatus.ip; the WiFi stack (status, localIP) is the *)
(* environment.                                                            *)
(***************************************************************************)
\* millis() - lastRead > 60000
RefreshMs == 60000

\* bool isIPNULL() const { return ip == NULL_IP; }
isIPNULL(c) == c.ip = NULL_IP

\* getIpAddress, line 62: the test that refreshes connection.ip
Refreshes == (now + U32 - lastRead) % U32 > Ticks(RefreshMs) \/ isIPNULL(wifiStatus)

\* getIpAddress, lines 62-67: connection.ip after the call
RefreshedIp == IF Refreshes THEN localIP ELSE wifiStatus.ip

\* getIpAddress, line 69: the returned address
getIpAddress == IF RefreshedIp = NULL_IP THEN localIP ELSE RefreshedIp

\* toJson, lines 117-121: connected from WiFi.status(), ipAddress from
\* getIpAddress(), which writes connection.ip and lastRead
WifiStatus_toJson ==
    /\ wifiRoot' = [taken |-> TRUE, connected |-> wlConnected, ipAddress |-> getIpAddress]
    /\ wifiStatus' = [wifiStatus EXCEPT !.ip = RefreshedIp]
    /\ lastRead' = IF Refreshes THEN now ELSE lastRead
    /\ UNCHANGED <<wlConnected, localIP, everLost>>

\* the stack associates and is given an address (after WiFi.begin, line 184)
WiFi_Up(ip) ==
    /\ ~wlConnected
    /\ wlConnected' = TRUE
    /\ localIP' = ip
    /\ UNCHANGED <<lastRead, wifiRoot, everLost, wifiStatus>>

\* connect(), line 199, once WiFi.status() is WL_CONNECTED:
\* wifiStatus.updateConnection({true, WiFi.localIP()})
Connect_Store ==
    /\ wlConnected
    /\ wifiStatus' = [isConnected |-> TRUE, ip |-> localIP]
    /\ UNCHANGED <<wlConnected, localIP, lastRead, wifiRoot, everLost>>

\* the link is lost, or disconnect() (lines 213-220) drops it: the stack has
\* no address any more, and WifiStatus is not told
WiFi_Lost ==
    /\ wlConnected
    /\ wlConnected' = FALSE
    /\ localIP' = NULL_IP
    /\ everLost' = TRUE
    /\ UNCHANGED <<lastRead, wifiRoot, wifiStatus>>

\* time passes between two of the above
StatusStepMs == 20000
StatusHorizonMs == 160000
Status_Tick ==
    /\ now + Ticks(StatusStepMs) <= Ticks(StatusHorizonMs)
    /\ now' = now + Ticks(StatusStepMs)
    /\ UNCHANGED <<pc, op, arg, result, callId, ncalls, deadline, waitRet, waitRes,
                   prof, modeI, modemBusy, atLog, outcome, regAt, everReg,
                   enteredBusy, txRes>>

Addresses == {"192.168.1.100", "192.168.1.101"}

wifiButStatus == <<wpc, wi, wres, isConnectionTrying, wn, sawTrying>>
notStatusOrWifiVars ==
    <<modemVars, pureVars, regVars, initModemVars, settingsVars, cbVars, httpVars, fwVars>>

NextWifiStatus ==
    \/ WifiStatus_toJson /\ UNCHANGED <<notStatusOrWifiVars, wifiButStatus>>
    \/ (\E ip \in Addresses : WiFi_Up(ip)) /\ UNCHANGED <<notStatusOrWifiVars, wifiButStatus>>
    \/ Connect_Store /\ UNCHANGED <<notStatusOrWifiVars, wifiButStatus>>
    \/ WiFi_Lost /\ UNCHANGED <<notStatusOrWifiVars, wifiButStatus>>
    \/ Status_Tick /\ UNCHANGED notModemVars

InitWifiStatus == InitModemAt({0}) /\ InitPureIdle /\ InitRegistry /\ InitSettings /\ InitHttp /\ InitWifi /\ InitFw /\ InitStatus

SpecWifiStatus == InitWifiStatus /\ [][NextWifiStatus]_vars

(***************************************************************************)
(* Properties.                                                             *)
(***************************************************************************)
\* a response line cut at its commas
RECURSIVE CommaFields(_)
CommaFields(line) ==
    LET c == IndexOf(line, ",", 0)
    IN  IF c < 0 THEN <<line>>
        ELSE <<SubSeq(line, 1, c)>> \o CommaFields(SubSeq(line, c + 2, Len(line)))

\* a field that is a decimal number, possibly with white space around it
IsNumber(f) ==
    LET ink == {k \in 1..Len(f) : f[k] \notin Spaces}
    IN  /\ ink # {}
        /\ \A k \in ink : f[k] \in Digits
        /\ \A j, k \in ink : \A m \in j..k : m \in ink

\* its value, read from the last digit backwards
RECURSIVE NumberValue(_)
NumberValue(f) ==
    IF f = <<>> THEN 0
    ELSE IF f[Len(f)] \in Spaces THEN NumberValue(SubSeq(f, 1, Len(f) - 1))
    ELSE IF f[Len(f)] \notin Digits THEN 0
    ELSE 10 * NumberValue(SubSeq(f, 1, Len(f) - 1)) + DigitVal(f[Len(f)])

C5_SelectProfileExact ==
    (pin.fn = "selectProfile" /\ pout.done) =>
        /\ pin.id = <<"2", "2", "6", "0", "1">>
               => pout.prof # 0 /\ PROFILES[pout.prof].name = "Vodafone RO"
        /\ pin.id = <<"2", "2", "6", "0", "5">>
               => pout.prof # 0 /\ PROFILES[pout.prof].name = "Digi RO"
        /\ pin.id = <<"2", "2", "6", "1", "0">>
               => pout.prof # 0 /\ PROFILES[pout.prof].name = "Orange RO"
        /\ pin.id \notin {<<"2", "2", "6", "0", "1">>, <<"2", "2", "6", "0", "5">>,
                          <<"2", "2", "6", "1", "0">>}
               => pout.prof = DEFAULT_PROFILE
        /\ pout.prof # 0 => PROFILES[pout.prof].mccmnc = pin.id

\* C5 witness: a table identifier with one more character was looked up and
\* missed
C5_Witness ==
    /\ pin.fn = "selectProfile" /\ pout.done
    /\ pin.id = <<"2", "2", "6", "0", "1", "1">>
    /\ pout.prof = DEFAULT_PROFILE

\* the radio-mode-set commands handed to the transport so far
ModeSets == {k \in 1..Len(atLog) : atLog[k].cmd = "CNMP="}

\* C1: once a poll made for loop position i saw the modem registered (status
\* 1 or 5), every radio-mode-set command in the log belongs to a position up
\* to i: none for a later position, and none from the last-resort step.
C1_EarlyExit ==
    regAt >= 0 =>
        \A k \in ModeSets : atLog[k].site = "loop" /\ atLog[k].pos <= regAt

\* C1 witness: initModemClean has returned after the modem registered during
\* the second entry's window; two mode-set commands were issued in all
C1_Witness ==
    /\ op["t1"] = "initModemClean" /\ pc["t1"] = "idle" /\ result["t1"] = "void"
    /\ regAt = 1
    /\ Cardinality(ModeSets) = 2

HandedBy(t) == {k \in 1..Len(atLog) : atLog[k].call = callId[t]}

\* the call of task t was turned away at once: it returned false without a
\* wait and without anything handed to the transport
Rejected(t) ==
    /\ pc[t] = "idle" /\ result[t] = "false"
    /\ waitRes[t] = "none" /\ txRes[t] = "none"
    /\ HandedBy(t) = {}

\* a recipient that starts with "+" and has at least 7 characters after it
PlusAndSeven(to) == Len(to) >= 8 /\ to[1] = "+"

\* C2 (the claim as stated): a sendSmsSafe that was entered while another
\* task's sendSmsSafe was in flight, with modemBusy set, is rejected: it
\* returned false and nothing was handed to the transport for it.
C2_SecondCallRejected ==
    \A t \in Tasks :
        (op[t] = "sendSmsSafe" /\ enteredBusy[t]) => Rejected(t)

C10_SendOnlyAfterWait ==
    \A t \in Tasks :
        op[t] = "sendSmsSafe" =>
            /\ HandedBy(t) # {} => (waitRes[t] = "true" /\ everReg)
            /\ waitRes[t] = "false" =>
                  (pc[t] = "idle" /\ result[t] = "false" /\ HandedBy(t) = {}
                      /\ txRes[t] = "none")

\* C10 witness: a sendSmsSafe with valid arguments polled for its 15 s without
\* seeing registration and returned false, nothing handed to the transport
C10_Witness ==
    /\ op["t1"] = "sendSmsSafe" /\ pc["t1"] = "idle"
    /\ waitRes["t1"] = "false" /\ result["t1"] = "false"
    /\ ~everReg /\ atLog = <<>>
    /\ now >= Ticks(SmsWaitMs) /\ now < Ticks(SmsWaitMs) + Ticks(CregTimeoutMs) + Ticks(PollDelayMs)

\* the callbacks a call invoked, in order
InvokedFns(t) == [k \in 1..Len(invoked[t]) |-> invoked[t][k].fn]

\* C3: from an empty registry, with distinct names, the k-th registerProbe
\* returns true and fills slot k-1 while k <= PROBE_MAX; a later one returns
\* false and leaves count_ and the entries as they were when it was called; a
\* collectAll that follows a refused registration invokes exactly the
\* PROBE_MAX registered callbacks and leaves exactly PROBE_MAX entries in the
\* document.
C3_ProbeCapacity ==
    /\ count_ <= PROBE_MAX
    /\ \A k \in count_..(PROBE_MAX - 1) : entries_[k] = EmptyEntry
    /\ \A t \in Tasks :
        /\ (rop[t] = "registerProbe" /\ rpc[t] = "idle") =>
              /\ rres[t] = Ret(rcall[t] <= PROBE_MAX)
              /\ rres[t] = "true" =>
                    /\ count_ = rcall[t]
                    /\ entries_[rcall[t] - 1] = [name |-> DecStr(rcall[t]), fn |-> rcall[t]]
                    /\ EntriesUpTo(count_ - 1) = atEntry[t].entries
              /\ rres[t] = "false" =>
                    /\ count_ = atEntry[t].count
                    /\ EntriesUpTo(count_) = atEntry[t].entries
        /\ (rop[t] = "collectAll" /\ rres[t] = "void") =>
              /\ Len(invoked[t]) = atEntry[t].count
              /\ Len(doc[t]) = atEntry[t].count
              /\ atEntry[t].count = (IF rcall[t] > PROBE_MAX THEN PROBE_MAX ELSE rcall[t])
              /\ \A k \in 1..Len(doc[t]) : doc[t][k] = [key |-> DecStr(k), val |-> k]
              /\ InvokedFns(t) = [k \in 1..atEntry[t].count |-> k]

\* C3 witness: after PROBE_MAX accepted registrations and a refused one, a
\* collectAll has returned with PROBE_MAX callbacks invoked and PROBE_MAX
\* entries in the document
C3_Witness ==
    /\ rop["t1"] = "collectAll" /\ rres["t1"] = "void"
    /\ rcall["t1"] = PROBE_MAX + 1 /\ nreg = PROBE_MAX + 1
    /\ count_ = PROBE_MAX
    /\ Len(invoked["t1"]) = PROBE_MAX /\ Len(doc["t1"]) = PROBE_MAX

\* C9: every probe callback was invoked by a task that did not hold the
\* registry mutex at that moment, and a task about to invoke a copied callback
\* (in call, collectAll or collectWhere) does not hold it.
C9_CallbacksOutsideLock ==
    \A t \in Tasks :
        /\ \A k \in 1..Len(invoked[t]) : ~invoked[t][k].held
        /\ rpc[t] \in {"call_invoke", "all_invoke", "where_invoke"} => mtx_ # t

\* C9 witness: one task has invoked two copied callbacks in collectAll while
\* the other task holds the mutex inside its own call
C9_Witness ==
    \E t, u \in Tasks :
        /\ t # u
        /\ rop[t] = "collectAll" /\ Len(invoked[t]) = 2
        /\ mtx_ = u /\ rpc[u] \in {"reg_body", "call_scan", "where_snap"}

\* the last-resort "+CNMP=2" commands handed to the transport so far
LastResortSets == {k \in ModeSets : atLog[k].site = "last"}

\* C11 (the claim as stated): an initModemClean that went through its last
\* resort issued "+CNMP=2" exactly once there, and its final outcome is
\* Registered exactly when the last-resort wait observed registration
\* (returned true), Exhausted otherwise.
C11_LastResortDecides ==
    \A t \in Tasks :
        (outcome # "none" /\ waitRet[t] = "last") =>
            /\ Cardinality(LastResortSets) = 1
            /\ outcome = (IF waitRes[t] = "true" THEN "Registered" ELSE "Exhausted")

\* modem.init() failed in task t's current (or last) bring-up call
InitFailed(t) ==
    /\ op[t] \in {"initModem", "initModemClean"}
    /\ \E k \in HandedBy(t) : atLog[k].cmd = "init" /\ atLog[k].arg = FALSE

\* C12 (the claim as stated): a bring-up whose modem.init() failed, in
\* initModem and in initModemClean alike, made the power-off pulse and then
\* the power-on pulse and returned, with no identity query, no operator
\* selection and no radio-mode command handed to the transport.
C12_InitFailureAborts ==
    \A t \in Tasks :
        InitFailed(t) =>
            /\ pc[t] = "idle" /\ result[t] = "void"
            /\ \E j, k \in HandedBy(t) :
                  /\ j < k
                  /\ atLog[j].cmd = "PWRKEY" /\ atLog[j].arg = "off"
                  /\ atLog[k].cmd = "PWRKEY" /\ atLog[k].arg = "on"
            /\ \A k \in HandedBy(t) : atLog[k].cmd \notin {"CIMI", "COPS=", "CNMP=", "CMNB="}

\* hay has needle as a contiguous part
Contains(hay, needle) ==
    \E k \in 0..(Len(hay) - Len(needle)) : SubSeq(hay, k + 1, k + Len(needle)) = needle

\* C13 (the claim as stated): whatever non-empty password was stored when
\* toJson ran, the "password" value it wrote is the first 4 characters plus
\* the mask suffix, is not the stored password and does not contain it.
C13_PasswordNeverInFull ==
    (gsRoot.done /\ rootPw # <<>>) =>
        /\ gsRoot.password = Substring(rootPw, 0, 4) \o <<"*", "*", "*", "*">>
        /\ gsRoot.password # rootPw
        /\ ~Contains(gsRoot.password, rootPw)

\* a recipient that is "+" followed by at least 7 characters, all of them digits
PlusAndSevenDigits(to) ==
    /\ PlusAndSeven(to)
    /\ \A k \in 2..Len(to) : to[k] \in Digits

\* C14 (the claim as stated): a sendSmsSafe whose recipient is not "+"
\* followed by at least 7 digits is rejected: it returned false at once and
\* handed nothing to the transport.
C14_NonDigitRecipientRejected ==
    \A t \in Tasks :
        (op[t] = "sendSmsSafe" /\ ~PlusAndSevenDigits(arg[t].to)) => Rejected(t)

\* C15: count_ stays within 0 .. PROBE_MAX; no step of registerProbe, call,
\* collectAll or collectWhere, in any interleaving, lowers count_ or changes
\* an entry at an index below count_.
C15_RegistryAppendOnly ==
    /\ [](count_ \in 0..PROBE_MAX)
    /\ [][/\ count_' >= count_
          /\ \A k \in 0..(count_ - 1) : entries_'[k] = entries_[k]]_vars

\* C15 witness: the registry is full; one task's registration took the last
\* slot and the other task's was refused
C15_Witness ==
    \E t, u \in Tasks :
        /\ t # u /\ count_ = PROBE_MAX
        /\ rop[t] = "registerProbe" /\ rpc[t] = "idle" /\ rres[t] = "true"
        /\ rop[u] = "registerProbe" /\ rpc[u] = "idle" /\ rres[u] = "false"
        /\ entries_[PROBE_MAX - 1].fn = rcall[t]

\* an activation waits for the mutex / is between lock_() and unlock_()
Waiting(f) == rpc[f] \in {"reg_lock", "call_lock", "all_lock"}
InCritical(f) == rpc[f] \in {"reg_body", "reg_store", "call_scan", "all_snap"}

\* activation f has returned from its call, or is the task whose own
\* callback never returns
Completed(f) == rpc[f] = "idle" \/ (f \in Tasks /\ cbState[f] = "hung")

\* C16: whatever a probe callback does (never return, or call registerProbe,
\* call or collectAll itself), the mutex is held only between a lock_() and
\* the unlock_() of the same call, never during a callback or after a return,
\* and every activation that waits for the mutex gets it and completes its
\* call
C16_StallFreedom ==
    /\ [](\A f \in Frames : mtx_ = f => InCritical(f))
    /\ \A f \in Frames : Waiting(f) ~> Completed(f)

\* one task's callback registered a probe from inside and then hung, and the
\* other task has since collected both probes
C16_Witness ==
    \E t \in Tasks : \E u \in Tasks \ {t} :
        /\ cbState[t] = "hung"
        /\ rres[NestedOf(t)] = Ret(TRUE)
        /\ count_ = 2
        /\ entries_[1].fn = rcall[NestedOf(t)]
        /\ rop[u] = "collectAll"
        /\ rres[u] = "void"
        /\ Len(invoked[u]) = 2

\* the request in hand passed the body, JSON, phone-format and length checks
RequestValid ==
    /\ hreq.body = "json"
    /\ Len(hreq.phone) \in MinPhoneLen..MaxPhoneLen
    /\ \A i \in 1..Len(hreq.phone) : hreq.phone[i] \in Digits \cup {"+"}
    /\ hreq.msgLen \in MinMessageLen..MaxMessageLen

\* handleSend has returned from a request
Handled == nreq > 0 /\ hpc = "idle"

CheckedAs(b) == [cap |-> "checkModemRegistered", ret |-> b]
SentAs(b) == [cap |-> "sendSMS", ret |-> b]

\* C17: handleSend answers every request exactly once and calls sendSMS at
\* most once, only for a valid request and after checkModemRegistered said
\* true; an invalid request gets 400 with no capability called, an
\* unregistered modem gets 503 with no sendSMS; after the send the answer is
\* 200 iff sendSMS returned true, else 500
C17_HandleSendResponses ==
    /\ Len(responses) <= 1
    /\ Handled => Len(responses) = 1
    /\ \A k \in 1..Len(capCalls) :
          capCalls[k].cap = "sendSMS" =>
              RequestValid /\ k = 2 /\ capCalls[1] = CheckedAs(TRUE)
    /\ (nreq > 0 /\ ~RequestValid) => responses = <<400>> /\ capCalls = <<>>
    /\ (Handled /\ RequestValid) =>
          \/ capCalls = <<CheckedAs(FALSE)>> /\ responses = <<503>>
          \/ capCalls = <<CheckedAs(TRUE), SentAs(TRUE)>> /\ responses = <<200>>
          \/ capCalls = <<CheckedAs(TRUE), SentAs(FALSE)>> /\ responses = <<500>>

\* the second request, a longest phone and a longest message, was sent and
\* answered 200
C17_Witness ==
    /\ Handled
    /\ nreq = 2
    /\ Len(hreq.phone) = MaxPhoneLen
    /\ hreq.msgLen = MaxMessageLen
    /\ capCalls = <<CheckedAs(TRUE), SentAs(TRUE)>>
    /\ responses = <<200>>

\* C18: an identity shorter than 5 characters (the empty one included) gives
\* the empty identifier and the null profile, and initModemClean goes on to
\* radio setup with it; an identity of 5 or more characters gives exactly its
\* first 5 characters
C18_ShortIdentityDefaults ==
    \A t \in Tasks :
        (op[t] = "initModemClean" /\ pout.done) =>
            /\ Len(pout.imsi) < 5 =>
                  /\ pout.mccmnc = <<>>
                  /\ selectProfile(pout.mccmnc) = DEFAULT_PROFILE
                  /\ prof[t] = DEFAULT_PROFILE
                  /\ pc[t] \in {"setup", "mode"}
                  /\ result[t] = "none"
                  /\ pc[t] = "mode" =>
                        \E k \in HandedBy(t) :
                            atLog[k].cmd = "COPS=" /\ atLog[k].arg = <<0>>
            /\ Len(pout.imsi) >= 5 =>
                  /\ Len(pout.mccmnc) = 5
                  /\ \A k \in 1..5 : pout.mccmnc[k] = pout.imsi[k]

\* a four-character identity was read and the operator selection was issued
C18_Witness ==
    \E t \in Tasks :
        /\ op[t] = "initModemClean" /\ pout.done
        /\ Len(pout.imsi) = 4
        /\ pc[t] = "mode"
        /\ \E k \in HandedBy(t) : atLog[k].cmd = "COPS="

\* the longest one isCsRegistered() and the delay after it can take
OnePollMs == CregTimeoutMs + PollDelayMs

\* the clock time four per-mode windows and one last-resort window allow a
\* run of initModemClean, every AT answer arriving within its timeout
InitBudgetMs ==
    PowerOnPulseMs + SerialSettleMs
    + NumModes * (SettleMs + PerModeWaitMs + OnePollMs)
    + LastResortWaitMs + OnePollMs

\* C19: initModemClean comes to its end after at most four per-mode polling
\* windows and one last-resort window: it opens at most five windows, and it
\* is never still polling once the time of those windows has gone by
C19_InitTerminates ==
    \A t \in Tasks :
        (op[t] = "initModemClean" /\ pc[t] \in {"wait", "poll"}) =>
            /\ Cardinality({k \in ModeSets : atLog[k].call = callId[t]}) <= NumModes + 1
            /\ Elapsed <= Ticks(InitBudgetMs)

\* the message of task t's call has been handed to the modem transport
MessageHanded(t) == \E k \in HandedBy(t) : atLog[k].cmd = "SMS"

\* C20: neither sendSMS nor sendSmsSafe hands a message to the transport
\* unless, within that call, a registration check of the engine returned
\* true, a poll having seen the modem registered
C20_SmsGate ==
    \A t \in Tasks :
        (op[t] \in {"sendSMS", "sendSmsSafe"} /\ MessageHanded(t)) =>
            (waitRes[t] = "true" /\ everReg)

\* C21: at most one connect() is past the isConnectionTrying guard at any
\* time, and a call whose guard was tested while another call was past it
\* returned {false, 0.0.0.0} at once
C21_ConnectSerialized ==
    /\ Cardinality({t \in Tasks : PastGuard(t)}) <= 1
    /\ \A t \in Tasks :
          (wn[t] > 0 /\ sawTrying[t]) => (wpc[t] = "idle" /\ wres[t] = Refused)

\* the mode entries setupRadioWithProfile works through for profile pointer p
ProfileModes(p) == IF p = 0 THEN <<2, 2, 2, 2>> ELSE ProfileAt(p).modes

\* the modes set by the loop of task t's run, in the order issued
LoopModes(t) ==
    LET sets == SelectSeq(atLog, LAMBDA e : e.call = callId[t] /\ e.cmd = "CNMP="
                                            /\ e.site = "loop")
    IN  [k \in 1..Len(sets) |-> sets[k].arg]

\* how many of the four entries the loop of task t's run has taken up
EntriesTaken(t) ==
    IF pc[t] \in {"identity", "setup"} THEN 0
    ELSE IF pc[t] = "mode" \/ modeI[t] >= NumModes THEN modeI[t]
    ELSE IF waitRet[t] = "mode" THEN modeI[t] + 1
    ELSE NumModes

\* setupRadioWithProfile has returned true / false in task t's run
RadioReturned(t, val) ==
    /\ pc[t] \in {"lastresort", "final", "idle"} \/ waitRet[t] = "last"
    /\ (waitRet[t] = "mode" /\ pc[t] \in {"final", "idle"}) <=> val

NonZero(ms) == SelectSeq(ms, LAMBDA m : m # 0)

\* C22: the modes the loop sets are the non-zero entries of the profile's
\* modes, in index order, up to and including the first one whose wait
\* succeeded; a zero entry opens no polling window; a profile of four zeros
\* sets no mode in the loop and the loop returns false
C22_ModesInProfileOrder ==
    \A t \in Tasks :
        op[t] = "initModemClean" =>
            /\ LoopModes(t) = NonZero(SubSeq(ProfileModes(prof[t]), 1, EntriesTaken(t)))
            /\ (pc[t] \in {"wait", "poll"} /\ waitRet[t] = "mode")
                   => ProfileModes(prof[t])[modeI[t] + 1] # 0
            /\ RadioReturned(t, TRUE)
                   => /\ ProfileModes(prof[t])[modeI[t] + 1] # 0
                      /\ waitRes[t] = "true" \/ pc[t] = "idle"
            /\ RadioReturned(t, FALSE)
                   => LoopModes(t) = NonZero(ProfileModes(prof[t]))
            /\ (NonZero(ProfileModes(prof[t])) = <<>> /\ pc[t] \notin {"identity", "setup"})
                   => LoopModes(t) = <<>> /\ ~RadioReturned(t, TRUE)

\* the profile <<0, 13, 0, 38>> registered in its second window: the loop set
\* 13, then 38, and returned true
C22_Witness ==
    /\ op["t1"] = "initModemClean"
    /\ prof["t1"] # 0
    /\ ProfileAt(prof["t1"]).modes = <<0, 13, 0, 38>>
    /\ LoopModes("t1") = <<13, 38>>
    /\ pc["t1"] = "final"
    /\ waitRet["t1"] = "mode"

\* the log positions of "+CMNB=<n>" commands
CmnbSets == {k \in 1..Len(atLog) : atLog[k].cmd = "CMNB="}

\* C23: "+CMNB=<cmnb>" is issued only in a loop iteration whose mode is 38 or
\* 51, for a non-null profile with cmnb >= 0, and carries that cmnb; never
\* with mode 13 or 2, never for the null profile or a profile with cmnb -1
C23_CmnbOnlyInLteModes ==
    \A t \in Tasks : \A k \in CmnbSets :
        atLog[k].call = callId[t] =>
            /\ prof[t] # 0
            /\ ProfileAt(prof[t]).cmnb >= 0
            /\ atLog[k].arg = ProfileAt(prof[t]).cmnb
            /\ atLog[k].site = "loop"
            /\ ProfileAt(prof[t]).modes[atLog[k].pos + 1] \in {38, 51}
            /\ \E j \in 1..(k - 1) :
                  /\ atLog[j].cmd = "CNMP=" /\ atLog[j].call = atLog[k].call
                  /\ atLog[j].pos = atLog[k].pos /\ atLog[j].arg \in {38, 51}
                  /\ \A i \in (j + 1)..(k - 1) : atLog[i].cmd # "CNMP="

\* Vodafone RO went through all four modes: the preference was set with 38
\* and with 51, and not with 13 or 2
C23_Witness ==
    /\ prof["t1"] # 0
    /\ ProfileAt(prof["t1"]).name = "Vodafone RO"
    /\ pc["t1"] = "lastresort"
    /\ {atLog[k].pos : k \in CmnbSets} = {0, 1}
    /\ {atLog[k].pos : k \in ModeSets} = {0, 1, 2, 3}

\* the operator-selection commands of task t's run, as log positions
CopsOf(t) == {k \in HandedBy(t) : atLog[k].cmd = "COPS="}

\* the profile of task t's run asks for an operator lock
HasLock(t) ==
    /\ prof[t] # 0
    /\ ProfileAt(prof[t]).plmn # NullStr
    /\ ProfileAt(prof[t]).act >= 0

\* C24: a run of setupRadioWithProfile issues exactly one operator-selection
\* command, ahead of every radio-mode-set command: +COPS=1,2,"<plmn>",<act>
\* iff the profile is non-null with a plmn and act >= 0, +COPS=0 otherwise
C24_OneOperatorSelection ==
    \A t \in Tasks :
        op[t] = "initModemClean" =>
            IF pc[t] \in {"identity", "setup"}
            THEN CopsOf(t) = {}
            ELSE /\ Cardinality(CopsOf(t)) = 1
                 /\ \A k \in CopsOf(t) :
                       /\ \A j \in ModeSets : atLog[j].call = callId[t] => k < j
                       /\ HasLock(t) =>
                             atLog[k].arg = <<1, 2, ProfileAt(prof[t]).plmn,
                                              ProfileAt(prof[t]).act>>
                       /\ ~HasLock(t) => atLog[k].arg = <<0>>

\* a profile with a plmn but act = -1 got +COPS=0, and one without a plmn
\* likewise: here the former, its run at the last-resort step
C24_Witness ==
    /\ op["t1"] = "initModemClean"
    /\ prof["t1"] # 0
    /\ ProfileAt(prof["t1"]).plmn # NullStr
    /\ ProfileAt(prof["t1"]).act = -1
    /\ pc["t1"] = "lastresort"
    /\ \E k \in CopsOf("t1") : atLog[k].arg = <<0>>

\* C25: in a run of initModemClean whose lookup gave the null profile, every
\* radio-mode-set command, of the loop and of the last-resort step, selects
\* mode 2, the operator selection is +COPS=0, and no +CMNB=<n> is issued
C25_NullProfileAutomatic ==
    \A t \in Tasks :
        (op[t] = "initModemClean" /\ prof[t] = DEFAULT_PROFILE) =>
            \A k \in HandedBy(t) :
                /\ atLog[k].cmd = "CNMP=" => atLog[k].arg = 2
                /\ atLog[k].cmd = "COPS=" => atLog[k].arg = <<0>>
                /\ atLog[k].cmd # "CMNB="

\* a run with the null profile went through its four loop windows and the
\* last-resort step, five mode-sets in all, and ended
C25_Witness ==
    /\ op["t1"] = "initModemClean"
    /\ prof["t1"] = DEFAULT_PROFILE
    /\ pc["t1"] = "idle"
    /\ outcome # "none"
    /\ Cardinality({k \in ModeSets : atLog[k].call = callId["t1"]}) = NumModes + 1
    /\ CopsOf("t1") # {}

\* C26: at every clock value of the call, wrap-around included, a caller's
\* waitCsRegistered(ms) returns true only after a poll that found the modem
\* registered, returns false only once ms have elapsed since the call (so
\* never before a first poll), and makes no poll later than ms plus one
\* poll interval after the call
C26_WaitHonoursTimeout ==
    \A t \in Tasks :
        op[t] = "waitCsRegistered" =>
            /\ result[t] = "true" => everReg
            /\ result[t] = "false" => WaitElapsed >= Ticks(pin.ms)
            /\ pc[t] = "poll" => WaitElapsed <= Ticks(pin.ms) + Ticks(OnePollMs)

\* the verdict isCsRegistered draws from one field of a line: trim(), toInt(),
\* then 1 (home) or 5 (roaming)
FieldRegistered(f) == ToInt(Trim(f)) \in {1, 5}

\* an isCsRegistered call that read a line of at least three fields
ReadLongLine ==
    /\ pin.fn = "isCsRegistered" /\ pout.done
    /\ pin.resp.kind = "line"
    /\ Len(CommaFields(pin.resp.line)) >= 3

\* C27, as claimed: for every response line with at least three
\* comma-delimited fields, isCsRegistered takes the status code from the
\* third field
C27_StatusFromThirdField ==
    ReadLongLine => (pout.reg <=> FieldRegistered(CommaFields(pin.resp.line)[3]))

\* C27, amended: for every response line with at least three comma-delimited
\* fields, isCsRegistered takes the status code from the second field (the
\* <stat> of "+CREG: <n>,<stat>,..."), whatever the third field holds
C27_StatusFromSecondField ==
    ReadLongLine => (pout.reg <=> FieldRegistered(CommaFields(pin.resp.line)[2]))

\* C27 witness: a line of three fields or more was read whose second field
\* says registered and whose third field does not
C27_Witness ==
    /\ ReadLongLine
    /\ FieldRegistered(CommaFields(pin.resp.line)[2])
    /\ ~FieldRegistered(CommaFields(pin.resp.line)[3])
    /\ pout.reg

\* a call(name, dst) that has returned
CallReturned(t) == rop[t] = "call" /\ rpc[t] = "idle" /\ rres[t] # "none"

\* the slots that hold an entry registered under name
SlotsNamed(name) == {i \in 0..(count_ - 1) : entries_[i].name = name}

\* the first of them
FirstNamed(name) == CHOOSE i \in SlotsNamed(name) : \A j \in SlotsNamed(name) : i <= j

\* an entry of that name was registered before the call began
NamedAtEntry(t) ==
    \E k \in 1..Len(atEntry[t].entries) : atEntry[t].entries[k].name = rname[t]

\* C28: call(name, dst) never invokes more than one callback. A call that
\* returned true invoked exactly one, the callback of the (first) registered
\* entry whose name equals name, and dst holds that callback's object under
\* name. A call that returned false invoked none and left dst as it was, and
\* no entry had that name when the call began; when one had, the call
\* returned true.
C28_CallInvokesNamedProbe ==
    \A t \in Tasks :
        /\ rop[t] = "call" => Len(invoked[t]) <= 1
        /\ CallReturned(t) =>
              /\ NamedAtEntry(t) => rres[t] = "true"
              /\ rres[t] = "true" =>
                    /\ SlotsNamed(rname[t]) # {}
                    /\ Len(invoked[t]) = 1
                    /\ invoked[t][1].name = rname[t]
                    /\ invoked[t][1].fn = entries_[FirstNamed(rname[t])].fn
                    /\ doc[t] = <<[key |-> rname[t], val |-> invoked[t][1].fn]>>
              /\ rres[t] = "false" =>
                    /\ invoked[t] = <<>>
                    /\ doc[t] = <<>>
                    /\ ~NamedAtEntry(t)

\* C28 witness: with an entry of another name in the first slot and the
\* called name in the second, a call returned true
C28_Witness ==
    \E t \in Tasks :
        /\ CallReturned(t) /\ rres[t] = "true"
        /\ count_ = 2
        /\ SlotsNamed(rname[t]) = {1}

\* a registerProbe(name, fn) that has returned
RegReturned(t) == rop[t] = "registerProbe" /\ rpc[t] = "idle" /\ rres[t] # "none"

\* the slots that hold the entry of t's registerProbe call
OwnSlots(t) == {i \in 0..(count_ - 1) : entries_[i] = [name |-> rname[t], fn |-> rfn[t]]}

\* the task whose registerProbe call began first
FirstRegistrant == CHOOSE t \in Tasks : \A u \in Tasks : rcall[t] <= rcall[u]

\* the smaller of two numbers
Smaller(a, b) == IF a <= b THEN a ELSE b

\* C29: registrations made from different threads are neither lost nor
\* overlaid. count_ never passes PROBE_MAX. A registerProbe that returned true
\* has its entry in exactly one slot, one that was free when the call began;
\* one that returned false has none; and the entries present when the call
\* began are still in their slots. When each of the k threads has made one
\* call on a registry that held c entries, exactly min(k, PROBE_MAX - c) of
\* the calls returned true and count_ = c + that number.
C29_RegistrationsNotLost ==
    /\ count_ <= PROBE_MAX
    /\ \A t \in Tasks :
          RegReturned(t) =>
              /\ Cardinality(OwnSlots(t)) = (IF rres[t] = "true" THEN 1 ELSE 0)
              /\ \A i \in OwnSlots(t) : i >= atEntry[t].count
              /\ atEntry[t].entries = EntriesUpTo(atEntry[t].count)
    /\ ((\A t \in Tasks : RegReturned(t)) /\ nreg = rcall[FirstRegistrant] + 1) =>
          LET c == atEntry[FirstRegistrant].count
              wins == {t \in Tasks : rres[t] = "true"}
          IN  /\ Cardinality(wins) = Smaller(Cardinality(Tasks), PROBE_MAX - c)
              /\ count_ = c + Cardinality(wins)
              /\ \A t, u \in wins : t # u => OwnSlots(t) \cap OwnSlots(u) = {}

\* C29 witness: two threads called registerProbe while the registry had one
\* free slot, each beginning before the other had stored; both have returned,
\* one with true and one with false
C29_Witness ==
    /\ \A t \in Tasks : RegReturned(t) /\ atEntry[t].count = PROBE_MAX - 1
    /\ Cardinality({t \in Tasks : rres[t] = "true"}) = 1
    /\ count_ = PROBE_MAX

\* t's collectAll has taken its snapshot
SnapshotTaken(t) == rop[t] = "collectAll" /\ rpc[t] \in {"all_invoke", "idle"}

\* the callbacks t's call has invoked, as entries
InvokedEntries(t) == [k \in 1..Len(invoked[t]) |-> [name |-> invoked[t][k].name,
                                                     fn |-> invoked[t][k].fn]]

\* C30: a collectAll that runs while other tasks register probes. At the
\* step that takes the snapshot, the snapshot is the whole entry list of that
\* moment and no registration is between its capacity test and its store.
\* From then on the snapshot does not change and stays a prefix of the
\* registry's entry list, it holds every entry that was registered when the
\* collectAll began, the callbacks invoked so far are the first entries of
\* the snapshot in order, and when collectAll has returned they are the
\* whole snapshot, each invoked once.
C30_SnapshotIsPrefix ==
    /\ [][\A t \in Tasks :
             (rpc[t] = "all_snap" /\ rpc'[t] = "all_invoke") =>
                 /\ snap'[t] = EntriesUpTo(count_)
                 /\ \A u \in Tasks : rpc[u] \notin {"reg_body", "reg_store"}]_vars
    /\ [][\A t \in Tasks :
             (rop[t] = "collectAll" /\ rpc[t] = "all_invoke") => snap'[t] = snap[t]]_vars
    /\ [](\A t \in Tasks :
             SnapshotTaken(t) =>
                 /\ Len(snap[t]) <= count_
                 /\ snap[t] = EntriesUpTo(Len(snap[t]))
                 /\ Len(snap[t]) >= atEntry[t].count
                 /\ Len(invoked[t]) <= Len(snap[t])
                 /\ InvokedEntries(t) = SubSeq(snap[t], 1, Len(invoked[t]))
                 /\ rpc[t] = "idle" => InvokedEntries(t) = snap[t])

\* C30 witness: a collectAll has returned after invoking the one probe of its
\* snapshot; that probe was registered after the collectAll began, and
\* another probe was registered after the snapshot was taken
C30_Witness ==
    \E t \in Tasks :
        /\ SnapshotTaken(t) /\ rpc[t] = "idle"
        /\ atEntry[t].count = 0
        /\ Len(snap[t]) = 1 /\ Len(invoked[t]) = 1
        /\ count_ = 2

\* the names of the entries of a snapshot
SnapNames(sn) == {sn[k].name : k \in 1..Len(sn)}

\* the callable of the last entry of a snapshot registered under name
LatestFn(sn, name) ==
    sn[CHOOSE k \in 1..Len(sn) :
           /\ sn[k].name = name
           /\ \A j \in 1..Len(sn) : sn[j].name = name => j <= k].fn

\* a collectAll that has returned
CollectAllReturned(t) == rop[t] = "collectAll" /\ rpc[t] = "idle" /\ rres[t] = "void"

\* C31: registerProbe turns a call away only when the registry is full, never
\* because the name is taken (the duplicate gets a further slot of its own);
\* with several entries of one name, call(name) invokes the callback of the one
\* registered first; collectAll invokes every entry of its snapshot in
\* registration order, its output holds one key per distinct name, under each
\* key the object of the entry registered last under it, and so fewer keys
\* than count_ when a name occurs twice.
C31_DuplicateNames ==
    \A t \in Tasks :
        /\ RegReturned(t) =>
              /\ rres[t] = "false" => count_ = PROBE_MAX
              /\ (rres[t] = "true" /\ NamedAtEntry(t)) =>
                    /\ Cardinality(SlotsNamed(rname[t])) >= 2
                    /\ \E i \in OwnSlots(t) : i > FirstNamed(rname[t])
        /\ (CallReturned(t) /\ rres[t] = "true" /\ Cardinality(SlotsNamed(rname[t])) >= 2) =>
              /\ Len(invoked[t]) = 1
              /\ invoked[t][1].fn = entries_[FirstNamed(rname[t])].fn
        /\ CollectAllReturned(t) =>
              /\ InvokedEntries(t) = snap[t]
              /\ {doc[t][k].key : k \in 1..Len(doc[t])} = SnapNames(snap[t])
              /\ Len(doc[t]) = Cardinality(SnapNames(snap[t]))
              /\ \A k \in 1..Len(doc[t]) : doc[t][k].val = LatestFn(snap[t], doc[t][k].key)
              /\ Cardinality(SnapNames(snap[t])) < Len(snap[t]) => Len(doc[t]) < count_

\* C31 witness: a collectAll has returned whose snapshot held two entries of
\* one name, registered by two accepted registerProbe calls, and whose output
\* has one key
C31_Witness ==
    \E t \in Tasks :
        /\ CollectAllReturned(t)
        /\ Len(snap[t]) = 2 /\ snap[t][1].name = snap[t][2].name
        /\ snap[t][1].fn # snap[t][2].fn
        /\ Len(doc[t]) = 1

\* C32: with a single caller, modemBusy is true exactly while a sendSmsSafe
\* call is between the end of its validation and its return; whichever way
\* sendSmsSafe returned (turned away by validation, registration wait failed,
\* transport reported success, transport reported failure), modemBusy is
\* false afterwards.
C32_BusyFlag ==
    \A t \in {"t1"} :
        /\ modemBusy <=> InFlight(t)
        /\ (op[t] = "sendSmsSafe" /\ pc[t] = "idle") =>
              /\ ~modemBusy
              /\ \/ Rejected(t)
                 \/ waitRes[t] = "false" /\ txRes[t] = "none" /\ result[t] = "false"
                 \/ waitRes[t] = "true" /\ txRes[t] = result[t] /\ result[t] \in {"true", "false"}

\* C32 witness: a sendSmsSafe call passed validation, its wait for
\* registration failed, and it has returned false
C32_Witness ==
    /\ op["t1"] = "sendSmsSafe" /\ pc["t1"] = "idle"
    /\ SmsSafeAccepts(arg["t1"].to, arg["t1"].text)
    /\ waitRes["t1"] = "false" /\ result["t1"] = "false"
    /\ ~modemBusy

\* the loop task is inside initModem()
InitActive == mpc = "in_initModem"

\* the handler is at or inside checkModemRegistered() or sendSMS()
SendActive == hpc \in {"hs_check", "hs_send"}

\* C33: in the firmware's setup() / loop() sequence the modem bring-up never
\* overlaps an SMS submission: while initModem is running the HTTP server
\* has not been constructed and no handler is at its modem calls; a handler
\* is at its modem calls only on the loop task, inside handleClient(), after
\* the server was constructed; and initModem is entered only from setup()'s
\* own call, so never while it is already running.
C33_InitNeverOverlapsSend ==
    /\ [](~(InitActive /\ SendActive))
    /\ [](InitActive => ~httpServer)
    /\ [](SendActive => (mpc = "in_handle" /\ httpServer))
    /\ [][InitActive' => (InitActive \/ (mpc = "initModem" /\ ~SendActive))]_vars

\* C33 witness: after a restart, with the server constructed again, the
\* handler is about to call sendSMS
C33_Witness ==
    /\ nboot = 1 /\ httpServer
    /\ hpc = "hs_send" /\ mpc = "in_handle"

\* an optional single leading "+" followed only by digits
LeadingPlusThenDigits(s) ==
    \A i \in 1..Len(s) : s[i] \in Digits \/ (i = 1 /\ s[i] = "+")

\* handleSend turned the request away with 400 before any modem call
TurnedAway400 == hpc = "idle" /\ responses = <<400>> /\ capCalls = <<>>

\* C34: looksLikePhone(s) is true exactly when 7 <= length(s) <= 20 and s is
\* an optional single leading "+" followed only by digits; seen through
\* handleSend, a JSON request whose message length is in range gets past the
\* phone test exactly in that case, so a "+" anywhere but first earns 400.
C34_LooksLikePhoneIff ==
    /\ (nreq > 0 /\ hreq.body = "json") =>
          (looksLikePhone(hreq.phone) <=>
               /\ Len(hreq.phone) >= MinPhoneLen /\ Len(hreq.phone) <= MaxPhoneLen
               /\ LeadingPlusThenDigits(hreq.phone))
    /\ (nreq > 0 /\ hreq.body = "json" /\ MessageLengthOk(hreq.msgLen)) =>
          (TurnedAway400 <=>
               ~(/\ Len(hreq.phone) >= MinPhoneLen /\ Len(hreq.phone) <= MaxPhoneLen
                 /\ LeadingPlusThenDigits(hreq.phone)))

\* the order of the modes as Modem.hpp lines 196-200 list it
DocumentedOrder == <<2, 13, 38, 51>>

\* the mode-set commands of initModem's loop handed to the transport so far
LoopSets == {k \in ModeSets : atLog[k].site = "loop"}

\* C35: Modem::initModem sets the network modes in the order 2, 13, 38, 51,
\* one mode-set command per loop position, polls each mode at most 60 times,
\* and issues no mode-set command for a position after the one at which a
\* poll reported registration.
C35_InitModemModeOrder ==
    /\ \A k \in LoopSets :
          /\ atLog[k].pos \in 0..(NumModes - 1)
          /\ atLog[k].arg = DocumentedOrder[atLog[k].pos + 1]
          /\ \A j \in LoopSets : atLog[j].pos = atLog[k].pos => j = k
          /\ regAt >= 0 => atLog[k].pos <= regAt
    /\ \A t \in Tasks : tryCount[t] \in -1..TryCountStart

\* C36: a read or write of the characteristic over a link that is not
\* encrypted does nothing: the callback's list of steps is empty (no setter,
\* no save, no WiFi disconnect or connect, no notification, no restart, no
\* status snapshot, no new characteristic value) and the settings, the
\* characteristic value and the device's run are as they were, whatever the
\* payload.
C36_UnencryptedDoesNothing ==
    [][(nble' = nble + 1 /\ ~bleReq'.encrypted) =>
           /\ bleLog' = <<>>
           /\ UNCHANGED <<deviceName, ssid, password, charValue, mpc, httpServer, nboot>>]_vars

\* C36 witness: a write over an unencrypted link carried a parsable document
\* with a device name, both credentials and a restart request, and the
\* callback did nothing
C36_Witness ==
    /\ bleReq.kind = "write" /\ ~bleReq.encrypted
    /\ ~bleReq.payload.empty /\ bleReq.payload.valid
    /\ HasDeviceName(bleReq.payload) /\ HasCredentials(bleReq.payload)
    /\ WantsRestart(bleReq.payload)
    /\ bleLog = <<>> /\ nboot = 0 /\ deviceName = DefaultDeviceName

\* the positions of step st in the list of the last callback
StepsAt(st) == {k \in 1..Len(bleLog) : bleLog[k] = st}

\* every st1 in the list comes before every st2
Before(st1, st2) == \A j \in StepsAt(st1), k \in StepsAt(st2) : j < k

\* what the last callback did fits the flow of an encrypted, parsed write
WriteFlowHolds ==
    (bleReq.kind = "write" /\ bleReq.encrypted /\ ~bleReq.payload.empty
        /\ bleReq.payload.valid) =>
        LET pl == bleReq.payload
            dn == pl.deviceName.kind = "string"
            cred == pl.ssid.kind = "string" /\ pl.password.kind = "string"
        IN  /\ Cardinality(StepsAt("save")) = (IF dn \/ cred THEN 1 ELSE 0)
            /\ Cardinality(StepsAt("connect")) = (IF cred THEN 1 ELSE 0)
            /\ Cardinality(StepsAt("setSsid")) = (IF cred THEN 1 ELSE 0)
            /\ Cardinality(StepsAt("setPassword")) = (IF cred THEN 1 ELSE 0)
            /\ Cardinality(StepsAt("setDeviceName")) = (IF dn THEN 1 ELSE 0)
            /\ Cardinality(StepsAt("restart")) = (IF pl.restart = "true" THEN 1 ELSE 0)
            /\ cred => (ssid = pl.ssid.val /\ password = pl.password.val)
            /\ dn => deviceName = pl.deviceName.val
            /\ \A st \in {"setDeviceName", "setSsid", "setPassword"} : Before(st, "save")
            /\ Before("save", "disconnect") /\ Before("save", "connect")
            /\ Before("disconnect", "connect")
            /\ Before("connect", "notify")
            /\ \A st \in {"setDeviceName", "setSsid", "setPassword", "save", "connect",
                            "notify"} : Before(st, "restart")

\* C37: for a write over an encrypted link whose payload parsed: save happens
\* (once) exactly when the payload has a string deviceName or both a string
\* ssid and a string password; connect is attempted (once) exactly when both
\* credentials are present, and only then are ssid and password set; the
\* steps come in the order setters, save, connect, notify, restart, and
\* restart happens exactly when asked for.
C37_WriteFlow ==
    /\ [][(nble' = nble + 1 /\ bleReq'.kind = "write"
              /\ ~(bleReq'.payload.ssid.kind = "string"
                      /\ bleReq'.payload.password.kind = "string")) =>
              UNCHANGED <<ssid, password>>]_vars
    /\ []WriteFlowHolds

\* C37 witness: an encrypted write with a device name, both credentials and
\* a restart request went through every step, restart last
C37_Witness ==
    /\ bleReq.kind = "write" /\ bleReq.encrypted
    /\ bleLog = <<"setDeviceName", "setSsid", "setPassword", "save", "disconnect",
                  "connect", "setWifiConnected", "setIpAddress", "notify", "restart">>
    /\ nboot = 1

\* C38: a snapshot of the 'wifi' probe never reports connected = false
\* together with an ipAddress other than "0.0.0.0" once a connection has
\* been lost: getIpAddress returns "0.0.0.0" whenever WiFi is disconnected
C38_DisconnectedReportsZero ==
    (everLost /\ wifiRoot.taken /\ ~wifiRoot.connected) => wifiRoot.ipAddress = NULL_IP

====
